---- MODULE Spec2Model ----
(***************************************************************************)
(* Folder2Manager (flowy-folder2/src/manager.rs): one shared slot          *)
(* Mutex<Option<Folder>>, the manager's API calls split at their lock      *)
(* sections and await points, and the three background listeners.          *)
(*                                                                         *)
(* The Folder itself (collab_folder) is an external engine.  It is         *)
(* modelled as a record of workspaces, views, trash and the two "current"  *)
(* pointers; the child list of a parent is the set of views naming it as   *)
(* parent_view_id (sibling order is the engine's business and is not       *)
(* modelled).                                                              *)
(***************************************************************************)
EXTENDS Naturals, Sequences, FiniteSets, TLC

VARIABLES
  mutex_folder,     \* the slot: Option<Folder> behind the lock
  listening,        \* TRUE once initialize has spawned the three listeners
  call,             \* per caller: the API call in flight (its position and locals)
  ret,              \* per caller: the last completed call and what it returned
  ncalls,           \* number of API calls started so far
  view_rx,          \* ViewChange events not yet received by listen_on_view_change
  trash_rx,         \* TrashChange events not yet received by listen_on_trash_change
  folder_state_rx,  \* CollabState values not yet received by listen_on_folder_state_change
  trash_task,       \* listen_on_trash_change: position and locals
  reload_task,      \* listen_on_folder_state_change: position and locals
  nreloads,         \* number of collab state changes signalled so far
  out,              \* notifications sent by the last step, in order
  notified,         \* per topic: child-view notifications sent since Init
  content,          \* view ids whose content a handler has materialized
  dropped,          \* TRUE once the last Arc<MutexFolder> is gone: upgrade() fails
  stopped           \* the listeners whose loop has ended

vars == << mutex_folder, listening, call, ret, ncalls, view_rx, trash_rx,
           folder_state_rx, trash_task, reload_task, nreloads, out, notified,
           content, dropped, stopped >>

----------------------------------------------------------------------------
(* Bounds *)

MaxCalls == 2
MaxReloads == 1

(* Identifiers *)

Callers == {1, 2}
WorkspaceIds == {"W", "W2"}
ViewIds == {"A", "B"}
ParentIds == WorkspaceIds \cup ViewIds
\* What child-view notifications are addressed to
Topics == ParentIds \cup {"P"}
Layouts == {"Document", "Grid"}
\* operation_handlers: the layouts a FolderOperationHandler is registered for
operation_handlers == {"Document"}

Unset == "<unset>"      \* Option::None of a pointer
Empty == ""             \* the empty view id written by set_current_view("")

----------------------------------------------------------------------------
(* The Folder record and the engine's accessors *)

NoFolder == [is_some |-> FALSE]
Some(f) == [is_some |-> TRUE, folder |-> f]

View(id, parent, name, desc, layout) ==
  [id |-> id, parent_view_id |-> parent, name |-> name, desc |-> desc,
   layout |-> layout]

HasView(f, id) == id \in DOMAIN f.views

\* folder.views.get_views_belong_to(parent)
get_views_belong_to(f, parent) ==
  {id \in DOMAIN f.views : f.views[id].parent_view_id = parent}

\* folder.get_workspace_views(workspace_id)
get_workspace_views(f, workspace_id) ==
  IF workspace_id \in f.workspaces THEN get_views_belong_to(f, workspace_id) ELSE {}

\* folder.insert_view(view)
insert_view(f, v) ==
  [f EXCEPT !.views = [x \in DOMAIN f.views \cup {v.id} |->
                         IF x = v.id THEN v ELSE f.views[x]]]

\* folder.views.delete_views(ids)
delete_views(f, ids) ==
  [f EXCEPT !.views = [x \in DOMAIN f.views \ ids |-> f.views[x]]]

\* folder.trash.add_trash / delete_trash / clear
add_trash(f, ids) == [f EXCEPT !.trash = f.trash \cup ids]
delete_trash_records(f, ids) == [f EXCEPT !.trash = f.trash \ ids]
clear_trash(f) == [f EXCEPT !.trash = {}]

\* folder.set_current_view / set_current_workspace
set_current_view_ptr(f, id) == [f EXCEPT !.current_view = id]
set_current_workspace_ptr(f, id) == [f EXCEPT !.current_workspace = id]

\* The events the engine broadcasts for a mutation
DidCreateView(v) == [type |-> "DidCreateView", parent_view_id |-> v.parent_view_id]
DidUpdate(v) == [type |-> "DidUpdate", parent_view_id |-> v.parent_view_id]
DidDeleteView(ids) == [type |-> "DidDeleteView", parent_view_id |-> Empty]
DidCreateTrash(ids) == [type |-> "DidCreateTrash", ids |-> ids]
DidDeleteTrash(ids) == [type |-> "DidDeleteTrash", ids |-> ids]

\* tokio::sync::broadcast::channel(100), lines 103-104
channel_capacity == 100

\* What recv() yields in place of the values a receiver was too slow for
Lagged == [type |-> "Lagged"]

\* Sender::send on the bounded broadcast channel, as its one receiver sees it:
\* a value sent to a full channel overwrites the oldest one not yet received,
\* and the receiver's next recv() reports that it has lagged
broadcast_send(rx, value) ==
  LET lagged == rx # << >> /\ Head(rx).type = "Lagged"
      values == IF lagged THEN Tail(rx) ELSE rx
  IN  IF Len(values) < channel_capacity THEN Append(rx, value)
      ELSE << Lagged >> \o Tail(values) \o << value >>

RECURSIVE broadcast_send_all(_, _)
broadcast_send_all(rx, values) ==
  IF values = << >> THEN rx
  ELSE broadcast_send_all(broadcast_send(rx, Head(values)), Tail(values))

----------------------------------------------------------------------------
(* Results, errors and notifications *)

Ok(v) == [ok |-> TRUE, value |-> v]
Err(code, context) == [ok |-> FALSE, code |-> code, context |-> context]
Unit == "()"
None == [is_some |-> FALSE]
SomeOf(v) == [is_some |-> TRUE, value |-> v]

record_not_found(context) == Err("RecordNotFound", context)
internal(context) == Err("Internal", context)
folder_not_init_error == internal("Folder not initialized")

\* entities::view_pb_with_child_views(view, child_views)
view_pb_with_child_views(v, child_views) ==
  [id |-> v.id, parent_view_id |-> v.parent_view_id, name |-> v.name,
   layout |-> v.layout, child_views |-> child_views]

Notification(by, topic, kind, views, trash) ==
  [by |-> by, topic |-> topic, kind |-> kind, views |-> views, trash |-> trash]

trash_ids(f) == f.trash

\* get_workspace_view_pbs(workspace_id, folder)
get_workspace_view_pbs(workspace_id, f) ==
  LET views == {id \in get_workspace_views(f, workspace_id) : id \notin trash_ids(f)}
  IN  {view_pb_with_child_views(f.views[id], get_views_belong_to(f, id)) : id \in views}

\* notify_did_update_workspace(workspace_id, folder)
notify_did_update_workspace(by, workspace_id, f) ==
  Notification(by, workspace_id, "DidUpdateWorkspaceViews",
               get_workspace_view_pbs(workspace_id, f), {})

\* The loop of notify_parent_view_did_change: the notifications sent for the
\* parent ids in order; a parent view missing from the views map ends the walk.
RECURSIVE notify_parents(_, _, _)
notify_parents(by, f, parent_view_ids) ==
  IF parent_view_ids = << >> THEN << >>
  ELSE LET parent_view_id == Head(parent_view_ids)
       IN  IF parent_view_id = f.current_workspace
           THEN << notify_did_update_workspace(by, f.current_workspace, f) >>
                  \o notify_parents(by, f, Tail(parent_view_ids))
           ELSE IF ~HasView(f, parent_view_id) THEN << >>
           ELSE LET child_views == {id \in get_views_belong_to(f, parent_view_id) :
                                      id \notin trash_ids(f)}
                    parent_view_pb ==
                      view_pb_with_child_views(f.views[parent_view_id], child_views)
                IN  << Notification(by, parent_view_id, "DidUpdateChildViews",
                                    {parent_view_pb}, {}) >>
                      \o notify_parents(by, f, Tail(parent_view_ids))

\* notify_parent_view_did_change(folder, parent_view_ids): what it sends
notify_parent_view_did_change(by, slot, parent_view_ids) ==
  IF ~slot.is_some THEN << >>
  ELSE IF slot.folder.current_workspace = Unset THEN << >>
  ELSE notify_parents(by, slot.folder, parent_view_ids)

\* get_view without the trash check on the view itself
get_view_ignoring_trash(slot, view_id) ==
  IF ~slot.is_some THEN folder_not_init_error
  ELSE LET f == slot.folder
       IN  IF ~HasView(f, view_id) THEN record_not_found("")
           ELSE Ok(view_pb_with_child_views(
                     f.views[view_id],
                     {id \in get_views_belong_to(f, view_id) : id \notin trash_ids(f)}))

\* Folder2Manager::get_view under the lock
get_view(slot, view_id) ==
  IF ~slot.is_some THEN folder_not_init_error
  ELSE LET f == slot.folder
       IN  IF view_id \in trash_ids(f) THEN record_not_found("")
           ELSE IF ~HasView(f, view_id) THEN record_not_found("")
           ELSE Ok(view_pb_with_child_views(
                     f.views[view_id],
                     {id \in get_views_belong_to(f, view_id) : id \notin trash_ids(f)}))

\* Folder2Manager::get_handler
get_handler(layout) ==
  IF layout \in operation_handlers THEN Ok(layout)
  ELSE internal("Get data processor failed. Unknown layout type")

\* view_operation::create_view(params, layout)
create_view(params, layout) ==
  View(params.view_id, params.parent_view_id, params.name, params.desc, layout)

----------------------------------------------------------------------------
(* State *)

Idle == [op |-> "idle"]
NoReturn == [op |-> "none"]

\* An API call in flight: its position, its argument, the handler methods it has
\* invoked, whether a lock section of it found a snapshot, whether it inserted
\* a view, and its locals.
InFlight(op, pc, arg, handlers, saw_some, inserted, tmp) ==
  [op |-> op, pc |-> pc, arg |-> arg, handlers |-> handlers,
   saw_some |-> saw_some, inserted |-> inserted, tmp |-> tmp]

Returned(op, arg, result, handlers, saw_some, inserted) ==
  [op |-> op, arg |-> arg, result |-> result, handlers |-> handlers,
   saw_some |-> saw_some, inserted |-> inserted, n |-> 0]

EmptyFolder ==
  [workspaces |-> {"W"}, current_workspace |-> "W", views |-> << >>,
   trash |-> {}, current_view |-> Unset]

IsChildKind(kind) == kind \in {"DidUpdateChildViews", "DidUpdateWorkspaceViews"}

\* The notification sink: what this step sends
Send(ns) ==
  /\ out' = ns
  /\ notified' = [t \in DOMAIN notified |->
                    notified[t] + Cardinality({i \in DOMAIN ns :
                                     IsChildKind(ns[i].kind) /\ ns[i].topic = t})]

CanStart(c) == call[c] = Idle /\ ncalls < MaxCalls /\ ~dropped

Start(c, inflight) ==
  /\ call' = [call EXCEPT ![c] = inflight]
  /\ ncalls' = ncalls + 1
  /\ UNCHANGED ret

Step(c, inflight) ==
  /\ call' = [call EXCEPT ![c] = inflight]
  /\ UNCHANGED << ret, ncalls >>

\* The call returns to its caller; n numbers the caller's returns
Return(c, returned) ==
  /\ call' = [call EXCEPT ![c] = Idle]
  /\ ret' = [ret EXCEPT ![c] = [returned EXCEPT !.n = ncalls']]

\* A call that is one step from start to return
Whole(c, returned) ==
  /\ ncalls' = ncalls + 1
  /\ Return(c, returned)

Finish(c, returned) ==
  /\ UNCHANGED ncalls
  /\ Return(c, returned)

At(c, pc) == call[c] # Idle /\ call[c].pc = pc

listeners == << listening, trash_task, reload_task, nreloads, folder_state_rx,
               dropped, stopped >>

\* Everything but the slot, the listeners' start and the content, at start-up
Fresh ==
  /\ call = [c \in Callers |-> Idle]
  /\ ret = [c \in Callers |-> NoReturn]
  /\ ncalls = 0
  /\ view_rx = << >>
  /\ trash_rx = << >>
  /\ folder_state_rx = << >>
  /\ trash_task = [pc |-> "recv"]
  /\ reload_task = [pc |-> "recv"]
  /\ nreloads = 0
  /\ out = << >>
  /\ notified = [t \in Topics |-> 0]
  /\ dropped = FALSE
  /\ stopped = {}

----------------------------------------------------------------------------
(* create_view_with_params *)

CreateViewParams ==
  {p \in [view_id : ViewIds, parent_view_id : {"W"} \cup ViewIds, name : {"n2"},
          desc : {"d2"}, layout : Layouts, initial_data_is_empty : BOOLEAN] :
     p.parent_view_id # p.view_id}

\* An insert that installs a snapshot of its own when the slot is empty
InsertView_installing(c, view, next_pc) ==
  IF mutex_folder.is_some
  THEN /\ mutex_folder' = Some(insert_view(mutex_folder.folder, view))
       /\ view_rx' = broadcast_send(view_rx, DidCreateView(view))
       /\ Step(c, [call[c] EXCEPT !.pc = next_pc, !.saw_some = TRUE, !.inserted = TRUE])
  ELSE /\ mutex_folder' = Some(insert_view(EmptyFolder, view))
       /\ view_rx' = broadcast_send(view_rx, DidCreateView(view))
       /\ Step(c, [call[c] EXCEPT !.pc = next_pc, !.inserted = TRUE])

\* with_folder((), |folder| folder.insert_view(view)), lines 228-230 and 511-513
InsertView(c, view, next_pc) ==
  IF mutex_folder.is_some
  THEN /\ mutex_folder' = Some(insert_view(mutex_folder.folder, view))
       /\ view_rx' = broadcast_send(view_rx, DidCreateView(view))
       /\ Step(c, [call[c] EXCEPT !.pc = next_pc, !.saw_some = TRUE, !.inserted = TRUE])
  ELSE /\ UNCHANGED << mutex_folder, view_rx >>
       /\ Step(c, [call[c] EXCEPT !.pc = next_pc])

\* notify_parent_view_did_change(.., vec![view.parent_view_id]); Ok(..),
\* lines 232-233 and 514-515
NotifyAndReturn(c, view, result) ==
  /\ Send(notify_parent_view_did_change(c, mutex_folder, << view.parent_view_id >>))
  /\ Finish(c, Returned(call[c].op, call[c].arg, result, call[c].handlers,
                        call[c].saw_some \/ mutex_folder.is_some, call[c].inserted))

\* lines 201-205: the handler is looked up before anything else
create_view_with_params(c) ==
  /\ CanStart(c)
  /\ \E params \in CreateViewParams :
       LET handler == get_handler(params.layout)
       IN  IF handler.ok
           THEN Start(c, InFlight("create_view_with_params", "create_await", params,
                                  << >>, FALSE, FALSE, params))
           ELSE Whole(c, Returned("create_view_with_params", params, handler,
                                  << >>, FALSE, FALSE))
  /\ Send(<< >>)
  /\ UNCHANGED << mutex_folder, view_rx, trash_rx, content, listeners >>

\* create_view_with_params that goes on to insert after a failed handler call
create_view_handler_unchecked(c) ==
  /\ At(c, "create_await")
  /\ LET params == call[c].tmp
         method == IF params.initial_data_is_empty THEN "create_built_in_view"
                   ELSE "create_view_with_view_data"
     IN  \/ /\ content' = content \cup {params.view_id}
            /\ Step(c, [call[c] EXCEPT !.pc = "create_insert",
                                       !.handlers = Append(@, method)])
         \/ /\ Step(c, [call[c] EXCEPT !.pc = "create_insert",
                                       !.handlers = Append(@, method)])
            /\ UNCHANGED content
  /\ Send(<< >>)
  /\ UNCHANGED << mutex_folder, view_rx, trash_rx, listeners >>

\* lines 206-226: the handler materializes the content, or fails and `?` returns
create_view_handler(c) ==
  /\ At(c, "create_await")
  /\ LET params == call[c].tmp
         method == IF params.initial_data_is_empty THEN "create_built_in_view"
                   ELSE "create_view_with_view_data"
     IN  \/ /\ content' = content \cup {params.view_id}
            /\ Step(c, [call[c] EXCEPT !.pc = "create_insert",
                                       !.handlers = Append(@, method)])
         \/ /\ Finish(c, Returned(call[c].op, call[c].arg, Err("HandlerError", method),
                                  Append(call[c].handlers, method),
                                  call[c].saw_some, call[c].inserted))
            /\ UNCHANGED content
  /\ Send(<< >>)
  /\ UNCHANGED << mutex_folder, view_rx, trash_rx, listeners >>

\* create_view_with_params that forgets the insert
create_view_insert_dropped(c) ==
  /\ At(c, "create_insert")
  /\ Step(c, [call[c] EXCEPT !.pc = "create_notify"])
  /\ Send(<< >>)
  /\ UNCHANGED << mutex_folder, view_rx, trash_rx, content, listeners >>

\* lines 227-230
create_view_insert(c) ==
  /\ At(c, "create_insert")
  /\ InsertView(c, create_view(call[c].tmp, call[c].tmp.layout), "create_notify")
  /\ Send(<< >>)
  /\ UNCHANGED << trash_rx, content, listeners >>

\* lines 232-233; duplicate_view discards the view, lines 409-410
create_view_notify(c) ==
  /\ At(c, "create_notify")
  /\ LET view == create_view(call[c].tmp, call[c].tmp.layout)
     IN  NotifyAndReturn(c, view,
                         IF call[c].op = "duplicate_view" THEN Ok(Unit) ELSE Ok(view))
  /\ UNCHANGED << mutex_folder, view_rx, trash_rx, content, listeners >>

----------------------------------------------------------------------------
(* import *)

ImportParams ==
  [parent_view_id : {"W"} \cup ViewIds, name : {"n1"}, view_layout : Layouts,
   data : BOOLEAN, file_path : BOOLEAN]

\* The snapshot wherever it currently is: in the slot, or taken by the reload
TheFolders ==
  (IF mutex_folder.is_some THEN {mutex_folder.folder} ELSE {})
    \cup (IF reload_task.pc # "recv" THEN {reload_task.folder} ELSE {})

\* gen_view_id(): an id nobody has seen before
IsFresh(id) ==
  /\ id \notin content
  /\ \A f \in TheFolders :
       /\ id \notin DOMAIN f.views \cup f.trash
       /\ \A v \in DOMAIN f.views : f.views[v].parent_view_id # id
  /\ \A c \in Callers :
       call[c] # Idle /\ call[c].op \in {"import", "duplicate_view"}
                      /\ call[c].pc # "duplicate_await"
         => call[c].tmp.view_id # id

\* lines 485-486 and 499-508: the handler lookup, gen_view_id(), the view's params
ImportLookup(c, import_data) ==
  LET handler == get_handler(import_data.view_layout)
  IN  IF ~handler.ok
      THEN Whole(c, Returned("import", import_data, handler, << >>, FALSE, FALSE))
      ELSE \E view_id \in ViewIds :
             /\ IsFresh(view_id)
             /\ Start(c, InFlight("import", "import_await", import_data, << >>,
                          FALSE, FALSE,
                          [view_id |-> view_id,
                           parent_view_id |-> import_data.parent_view_id,
                           name |-> import_data.name, desc |-> "",
                           layout |-> import_data.view_layout,
                           initial_data_is_empty |-> TRUE]))

ImportInvalid(c, import_data) ==
  Whole(c, Returned("import", import_data,
                    Err("InvalidData", "data or file_path is required"),
                    << >>, FALSE, FALSE))

\* import that looks the handler up before it checks its arguments
import_lookup_first(c) ==
  /\ CanStart(c)
  /\ \E import_data \in ImportParams :
       IF ~get_handler(import_data.view_layout).ok
       THEN ImportLookup(c, import_data)
       ELSE IF ~import_data.data /\ ~import_data.file_path
       THEN ImportInvalid(c, import_data)
       ELSE ImportLookup(c, import_data)
  /\ Send(<< >>)
  /\ UNCHANGED << mutex_folder, view_rx, trash_rx, content, listeners >>

\* import that accepts exactly one of data and file_path
import_exactly_one(c) ==
  /\ CanStart(c)
  /\ \E import_data \in ImportParams :
       IF import_data.data = import_data.file_path
       THEN ImportInvalid(c, import_data)
       ELSE ImportLookup(c, import_data)
  /\ Send(<< >>)
  /\ UNCHANGED << mutex_folder, view_rx, trash_rx, content, listeners >>

\* lines 478-486: the argument check, then the handler lookup
import(c) ==
  /\ CanStart(c)
  /\ \E import_data \in ImportParams :
       IF ~import_data.data /\ ~import_data.file_path
       THEN ImportInvalid(c, import_data)
       ELSE ImportLookup(c, import_data)
  /\ Send(<< >>)
  /\ UNCHANGED << mutex_folder, view_rx, trash_rx, content, listeners >>

\* The handler methods import still has to await, lines 487-497
ImportPending(c) ==
  LET done == call[c].handlers
      want == (IF call[c].arg.data THEN << "import_from_bytes" >> ELSE << >>)
                \o (IF call[c].arg.file_path THEN << "import_from_file_path" >> ELSE << >>)
  IN  SubSeq(want, Len(done) + 1, Len(want))

\* lines 487-497: one awaited import call returns
import_handler(c) ==
  /\ At(c, "import_await")
  /\ LET method == Head(ImportPending(c))
         last == Len(ImportPending(c)) = 1
     IN  \/ /\ content' = content \cup {call[c].tmp.view_id}
            /\ Step(c, [call[c] EXCEPT !.pc = IF last THEN "import_insert" ELSE "import_await",
                                       !.handlers = Append(@, method)])
         \/ /\ Finish(c, Returned(call[c].op, call[c].arg, Err("HandlerError", method),
                                  Append(call[c].handlers, method),
                                  call[c].saw_some, call[c].inserted))
            /\ UNCHANGED content
  /\ Send(<< >>)
  /\ UNCHANGED << mutex_folder, view_rx, trash_rx, listeners >>

\* lines 499-513
import_insert(c) ==
  /\ At(c, "import_insert")
  /\ InsertView(c, create_view(call[c].tmp, call[c].arg.view_layout), "import_notify")
  /\ Send(<< >>)
  /\ UNCHANGED << trash_rx, content, listeners >>

\* lines 514-515
import_notify(c) ==
  /\ At(c, "import_notify")
  /\ LET view == create_view(call[c].tmp, call[c].arg.view_layout)
     IN  NotifyAndReturn(c, view, Ok(view))
  /\ UNCHANGED << mutex_folder, view_rx, trash_rx, content, listeners >>

----------------------------------------------------------------------------
(* duplicate_view *)

\* lines 392-396: the source view under the lock, then its handler
duplicate_view(c) ==
  /\ CanStart(c)
  /\ \E view_id \in ViewIds :
       IF ~(mutex_folder.is_some /\ HasView(mutex_folder.folder, view_id))
       THEN Whole(c, Returned("duplicate_view", view_id,
                              record_not_found("Can't duplicate the view"),
                              << >>, mutex_folder.is_some, FALSE))
       ELSE LET view == mutex_folder.folder.views[view_id]
                handler == get_handler(view.layout)
            IN  IF ~handler.ok
                THEN Whole(c, Returned("duplicate_view", view_id, handler, << >>, TRUE, FALSE))
                ELSE Start(c, InFlight("duplicate_view", "duplicate_await", view_id, << >>,
                                       TRUE, FALSE, view))
  /\ Send(<< >>)
  /\ UNCHANGED << mutex_folder, view_rx, trash_rx, content, listeners >>

\* lines 397-409: handler.duplicate_view returns the bytes; the copy's params
duplicate_view_handler(c) ==
  /\ At(c, "duplicate_await")
  /\ LET view == call[c].tmp
     IN  \/ \E view_data_is_empty \in BOOLEAN, view_id \in ViewIds :
              /\ IsFresh(view_id)
              /\ Step(c, [call[c] EXCEPT
                            !.pc = "create_await",
                            !.handlers = Append(@, "duplicate_view"),
                            !.tmp = [view_id |-> view_id,
                                     parent_view_id |-> view.parent_view_id,
                                     name |-> view.name \o " (copy)",
                                     desc |-> view.desc,
                                     layout |-> view.layout,
                                     initial_data_is_empty |-> view_data_is_empty]])
         \/ Finish(c, Returned(call[c].op, call[c].arg, Err("HandlerError", "duplicate_view"),
                               Append(call[c].handlers, "duplicate_view"),
                               call[c].saw_some, call[c].inserted))
  /\ Send(<< >>)
  /\ UNCHANGED << mutex_folder, view_rx, trash_rx, content, listeners >>

----------------------------------------------------------------------------
(* Calls that are a single lock section *)

\* with_folder(default_value, f), lines 186-195
with_folder(default_value, applied) ==
  IF mutex_folder.is_some THEN applied ELSE default_value

\* A call made of one with_folder section that only reads
ReadCall(c, op, arg, result) ==
  /\ Whole(c, Returned(op, arg, result, << >>, mutex_folder.is_some, FALSE))
  /\ Send(<< >>)
  /\ UNCHANGED << mutex_folder, view_rx, trash_rx, content, listeners >>

\* folder.get_current_workspace()
current_workspace(f) ==
  IF f.current_workspace \in f.workspaces THEN Ok(f.current_workspace)
  ELSE record_not_found("Can not find the workspace")

\* lines 66-71
get_current_workspace(c) ==
  /\ CanStart(c)
  /\ ReadCall(c, "get_current_workspace", Unit,
              with_folder(record_not_found("Can not find the workspace"),
                          current_workspace(mutex_folder.folder)))

\* lines 87-93
get_workspace_views_call(c) ==
  /\ CanStart(c)
  /\ \E workspace_id \in WorkspaceIds :
       ReadCall(c, "get_workspace_views", workspace_id,
                Ok(with_folder({}, get_workspace_view_pbs(workspace_id, mutex_folder.folder))))

\* lines 73-79: the first lock section reads the current workspace id
get_current_workspace_views(c) ==
  /\ CanStart(c)
  /\ LET workspace_id == with_folder(Unset, mutex_folder.folder.current_workspace)
     IN  IF workspace_id # Unset
         THEN Start(c, InFlight("get_current_workspace_views", "workspace_views", Unit,
                                << >>, TRUE, FALSE, workspace_id))
         ELSE Whole(c, Returned("get_current_workspace_views", Unit, Ok({}), << >>,
                                mutex_folder.is_some, FALSE))
  /\ Send(<< >>)
  /\ UNCHANGED << mutex_folder, view_rx, trash_rx, content, listeners >>

\* lines 80-81: the second lock section lists that workspace's views
get_current_workspace_views_list(c) ==
  /\ At(c, "workspace_views")
  /\ Finish(c, Returned(call[c].op, call[c].arg,
                        Ok(with_folder({}, get_workspace_view_pbs(call[c].tmp,
                                                                  mutex_folder.folder))),
                        << >>, TRUE, FALSE))
  /\ Send(<< >>)
  /\ UNCHANGED << mutex_folder, view_rx, trash_rx, content, listeners >>

\* open_workspace that moves the marker without looking the workspace up
open_workspace_unchecked(f, workspace_id) ==
  [result |-> Ok(workspace_id), folder |-> set_current_workspace_ptr(f, workspace_id)]

\* The closure of open_workspace, lines 171-178
open_workspace_in(f, workspace_id) ==
  IF workspace_id \in f.workspaces
  THEN [result |-> Ok(workspace_id), folder |-> set_current_workspace_ptr(f, workspace_id)]
  ELSE [result |-> record_not_found("Can't open not existing workspace"), folder |-> f]

\* lines 169-180
open_workspace(c) ==
  /\ CanStart(c)
  /\ \E workspace_id \in WorkspaceIds :
       IF mutex_folder.is_some
       THEN LET opened == open_workspace_in(mutex_folder.folder, workspace_id)
            IN  /\ mutex_folder' = Some(opened.folder)
                /\ Whole(c, Returned("open_workspace", workspace_id, opened.result,
                                     << >>, TRUE, FALSE))
       ELSE /\ UNCHANGED mutex_folder
            /\ Whole(c, Returned("open_workspace", workspace_id, internal(""),
                                 << >>, FALSE, FALSE))
  /\ Send(<< >>)
  /\ UNCHANGED << view_rx, trash_rx, content, listeners >>

\* lines 182-184
get_workspace(c) ==
  /\ CanStart(c)
  /\ \E workspace_id \in WorkspaceIds :
       ReadCall(c, "get_workspace", workspace_id,
                Ok(with_folder(None,
                               IF workspace_id \in mutex_folder.folder.workspaces
                               THEN SomeOf(workspace_id) ELSE None)))

\* lines 197-199
get_all_workspaces(c) ==
  /\ CanStart(c)
  /\ ReadCall(c, "get_all_workspaces", Unit,
              Ok(with_folder({}, mutex_folder.folder.workspaces)))

\* lines 274-303
get_view_call(c) ==
  /\ CanStart(c)
  /\ \E view_id \in ViewIds :
       ReadCall(c, "get_view", view_id, get_view(mutex_folder, view_id))

\* lines 349-354
get_views_belong_to_call(c) ==
  /\ CanStart(c)
  /\ \E parent_view_id \in ViewIds :
       ReadCall(c, "get_views_belong_to", parent_view_id,
                Ok(with_folder({}, get_views_belong_to(mutex_folder.folder, parent_view_id))))

\* lines 434-436
get_all_trash(c) ==
  /\ CanStart(c)
  /\ ReadCall(c, "get_all_trash", Unit, Ok(with_folder({}, mutex_folder.folder.trash)))

----------------------------------------------------------------------------
(* Calls that mutate the tree in one lock section *)

\* A call made of one with_folder section that mutates the snapshot, sends
\* `sends` after it and returns `result`
WriteCall(c, op, arg, folder_after, events_view, events_trash, sends, result) ==
  /\ IF mutex_folder.is_some
     THEN /\ mutex_folder' = Some(folder_after)
          /\ view_rx' = broadcast_send_all(view_rx, events_view)
          /\ trash_rx' = broadcast_send_all(trash_rx, events_trash)
     ELSE UNCHANGED << mutex_folder, view_rx, trash_rx >>
  /\ Whole(c, Returned(op, arg, result, << >>, mutex_folder.is_some, FALSE))
  /\ Send(sends)
  /\ UNCHANGED << content, listeners >>

\* The DidDeleteView event of views.delete_views(ids), if a view went
DeleteViewEvents(f, ids) ==
  IF ids \cap DOMAIN f.views # {} THEN << DidDeleteView(ids) >> ELSE << >>

\* The DidDeleteTrash event of trash.delete_trash(ids) or trash.clear(), if a record went
DeleteTrashEvents(f, ids) ==
  IF ids \cap f.trash # {} THEN << DidDeleteTrash(ids \cap f.trash) >> ELSE << >>

\* lines 306-309
delete_view(c) ==
  /\ CanStart(c)
  /\ \E view_id \in ViewIds :
       LET f == mutex_folder.folder
       IN  WriteCall(c, "delete_view", view_id, delete_views(f, {view_id}),
                     DeleteViewEvents(f, {view_id}), << >>, << >>, Ok(Unit))

\* move_view_to_trash that leaves the current-view pointer alone
trash_view_keeping_current(f, view_id) == add_trash(f, {view_id})

\* The closure of move_view_to_trash, lines 316-325
trash_view(f, view_id) ==
  LET trashed == add_trash(f, {view_id})
  IN  IF trashed.current_view # Unset /\ trashed.current_view = view_id
      THEN set_current_view_ptr(trashed, Empty)
      ELSE trashed

\* lines 314-329
move_view_to_trash(c) ==
  /\ CanStart(c)
  /\ \E view_id \in ViewIds :
       WriteCall(c, "move_view_to_trash", view_id,
                 trash_view(mutex_folder.folder, view_id),
                 << >>, << DidCreateTrash({view_id}) >>, << >>, Ok(Unit))

\* lines 439-447
restore_all_trash(c) ==
  /\ CanStart(c)
  /\ LET f == mutex_folder.folder
     IN  WriteCall(c, "restore_all_trash", Unit, clear_trash(f),
                   << >>, DeleteTrashEvents(f, f.trash),
                   << Notification(c, "trash", "DidUpdateTrash", {}, {}) >>, Ok(Unit))

\* restore_trash that removes the view with the record
restore_trash_deleting(c) ==
  /\ CanStart(c)
  /\ \E trash_id \in ViewIds :
       LET f == mutex_folder.folder
       IN  WriteCall(c, "restore_trash", trash_id,
                     delete_views(delete_trash_records(f, {trash_id}), {trash_id}),
                     DeleteViewEvents(f, {trash_id}), DeleteTrashEvents(f, {trash_id}),
                     << >>, Ok(Unit))

\* lines 450-454
restore_trash(c) ==
  /\ CanStart(c)
  /\ \E trash_id \in ViewIds :
       LET f == mutex_folder.folder
       IN  WriteCall(c, "restore_trash", trash_id, delete_trash_records(f, {trash_id}),
                     << >>, DeleteTrashEvents(f, {trash_id}), << >>, Ok(Unit))

\* lines 457-462
delete_trash(c) ==
  /\ CanStart(c)
  /\ \E trash_id \in ViewIds :
       LET f == mutex_folder.folder
       IN  WriteCall(c, "delete_trash", trash_id,
                     delete_views(delete_trash_records(f, {trash_id}), {trash_id}),
                     DeleteViewEvents(f, {trash_id}), DeleteTrashEvents(f, {trash_id}),
                     << >>, Ok(Unit))

\* delete_all_trash that announces the empty trash only when it emptied it
delete_all_trash_quiet(c) ==
  /\ CanStart(c)
  /\ LET f == mutex_folder.folder
     IN  WriteCall(c, "delete_all_trash", Unit,
                   delete_views(clear_trash(f), f.trash),
                   DeleteViewEvents(f, f.trash), DeleteTrashEvents(f, f.trash),
                   IF mutex_folder.is_some /\ f.trash = {} THEN << >>
                   ELSE << Notification(c, "trash", "DidUpdateTrash", {}, {}) >>,
                   Ok(Unit))

\* lines 465-475
delete_all_trash(c) ==
  /\ CanStart(c)
  /\ LET f == mutex_folder.folder
     IN  WriteCall(c, "delete_all_trash", Unit,
                   delete_views(clear_trash(f), f.trash),
                   DeleteViewEvents(f, f.trash), DeleteTrashEvents(f, f.trash),
                   << Notification(c, "trash", "DidUpdateTrash", {}, {}) >>, Ok(Unit))

\* lines 414-425: the pointer is set and the setting notification sent under the lock
set_current_view(c) ==
  /\ CanStart(c)
  /\ \E view_id \in ViewIds :
       IF mutex_folder.is_some
       THEN LET f == set_current_view_ptr(mutex_folder.folder, view_id)
            IN  /\ mutex_folder' = Some(f)
                /\ Send(<< Notification(c, "workspace_setting", "DidUpdateWorkspaceSetting",
                                        {}, {}) >>)
                /\ Whole(c, Returned("set_current_view", view_id, Ok(Unit), << >>, TRUE, FALSE))
       ELSE /\ UNCHANGED mutex_folder
            /\ Send(<< >>)
            /\ Whole(c, Returned("set_current_view", view_id, folder_not_init_error,
                                 << >>, FALSE, FALSE))
  /\ UNCHANGED << view_rx, trash_rx, content, listeners >>

\* lines 428-429: the first lock section reads the pointer
get_current_view(c) ==
  /\ CanStart(c)
  /\ LET view_id == with_folder(Unset, mutex_folder.folder.current_view)
     IN  IF view_id # Unset
         THEN Start(c, InFlight("get_current_view", "current_view", Unit, << >>,
                                TRUE, FALSE, view_id))
         ELSE Whole(c, Returned("get_current_view", Unit, Ok(None), << >>,
                                mutex_folder.is_some, FALSE))
  /\ Send(<< >>)
  /\ UNCHANGED << mutex_folder, view_rx, trash_rx, content, listeners >>

\* line 430: self.get_view(&view_id).await.ok()
get_current_view_get(c) ==
  /\ At(c, "current_view")
  /\ LET got == get_view(mutex_folder, call[c].tmp)
     IN  Finish(c, Returned(call[c].op, call[c].arg,
                            Ok(IF got.ok THEN SomeOf(got.value) ELSE None),
                            << >>, TRUE, FALSE))
  /\ Send(<< >>)
  /\ UNCHANGED << mutex_folder, view_rx, trash_rx, content, listeners >>

\* lines 333-336: folder.move_view under the lock (sibling order is not modelled)
move_view(c) ==
  /\ CanStart(c)
  /\ \E view_id \in ViewIds :
       IF mutex_folder.is_some /\ HasView(mutex_folder.folder, view_id)
       THEN Start(c, InFlight("move_view", "move_notify", view_id, << >>, TRUE, FALSE,
                              mutex_folder.folder.views[view_id]))
       ELSE Whole(c, Returned("move_view", view_id, Ok(Unit), << >>,
                              mutex_folder.is_some, FALSE))
  /\ Send(<< >>)
  /\ UNCHANGED << mutex_folder, view_rx, trash_rx, content, listeners >>

\* lines 340-344
move_view_notify(c) ==
  /\ At(c, "move_notify")
  /\ NotifyAndReturn(c, call[c].tmp, Ok(Unit))
  /\ UNCHANGED << mutex_folder, view_rx, trash_rx, content, listeners >>

----------------------------------------------------------------------------
(* update_view_with_params *)

UpdateViewParams ==
  [view_id : ViewIds, name : {Unset, "n3"}, desc : {Unset, "d3"}, layout : {Unset, "Grid"}]

\* An update that writes every field of the params, supplied or not
update_view_overwriting(view, params) ==
  [view EXCEPT !.name = params.name, !.desc = params.desc, !.layout = params.layout]

\* The closure given to views.update_view, lines 361-367
update_view(view, params) ==
  [view EXCEPT !.name = IF params.name # Unset THEN params.name ELSE @,
               !.desc = IF params.desc # Unset THEN params.desc ELSE @,
               !.layout = IF params.layout # Unset THEN params.layout ELSE @]

\* An update that looks its handler up by the view's new layout
update_view_with_params_new_layout(c) ==
  /\ CanStart(c)
  /\ \E params \in UpdateViewParams :
       IF mutex_folder.is_some /\ HasView(mutex_folder.folder, params.view_id)
       THEN LET f == mutex_folder.folder
                old_view == f.views[params.view_id]
                new_view == update_view(old_view, params)
            IN  /\ mutex_folder' = Some(insert_view(f, new_view))
                /\ view_rx' = broadcast_send(view_rx, DidUpdate(new_view))
                /\ Start(c, InFlight("update_view_with_params",
                                     IF get_handler(new_view.layout).ok
                                     THEN "update_await" ELSE "update_fetch",
                                     params, << >>, TRUE, FALSE, Unit))
       ELSE /\ UNCHANGED << mutex_folder, view_rx >>
            /\ Start(c, InFlight("update_view_with_params", "update_fetch", params, << >>,
                                 mutex_folder.is_some, FALSE, Unit))
  /\ Send(<< >>)
  /\ UNCHANGED << trash_rx, content, listeners >>

\* lines 359-372: the update under the lock, then the old layout's handler
update_view_with_params(c) ==
  /\ CanStart(c)
  /\ \E params \in UpdateViewParams :
       IF mutex_folder.is_some /\ HasView(mutex_folder.folder, params.view_id)
       THEN LET f == mutex_folder.folder
                old_view == f.views[params.view_id]
                new_view == update_view(old_view, params)
            IN  /\ mutex_folder' = Some(insert_view(f, new_view))
                /\ view_rx' = broadcast_send(view_rx, DidUpdate(new_view))
                /\ Start(c, InFlight("update_view_with_params",
                                     IF get_handler(old_view.layout).ok
                                     THEN "update_await" ELSE "update_fetch",
                                     params, << >>, TRUE, FALSE, Unit))
       ELSE /\ UNCHANGED << mutex_folder, view_rx >>
            /\ Start(c, InFlight("update_view_with_params", "update_fetch", params, << >>,
                                 mutex_folder.is_some, FALSE, Unit))
  /\ Send(<< >>)
  /\ UNCHANGED << trash_rx, content, listeners >>

\* line 373: handler.did_update_view(&old_view, &new_view).await?
update_view_handler(c) ==
  /\ At(c, "update_await")
  /\ \/ Step(c, [call[c] EXCEPT !.pc = "update_fetch",
                                !.handlers = Append(@, "did_update_view")])
     \/ Finish(c, Returned(call[c].op, call[c].arg, Err("HandlerError", "did_update_view"),
                           Append(call[c].handlers, "did_update_view"),
                           call[c].saw_some, call[c].inserted))
  /\ Send(<< >>)
  /\ UNCHANGED << mutex_folder, view_rx, trash_rx, content, listeners >>

\* line 377: the fetch after the update
update_view_fetch(c) ==
  /\ At(c, "update_fetch")
  /\ LET got == get_view(mutex_folder, call[c].arg.view_id)
     IN  IF got.ok
         THEN Step(c, [call[c] EXCEPT !.pc = "update_notify", !.tmp = got.value,
                                      !.saw_some = TRUE])
         ELSE Finish(c, Returned(call[c].op, call[c].arg, Ok(Unit), call[c].handlers,
                                 call[c].saw_some \/ mutex_folder.is_some, call[c].inserted))
  /\ Send(<< >>)
  /\ UNCHANGED << mutex_folder, view_rx, trash_rx, content, listeners >>

\* lines 378-386: the parent's notification, then DidUpdateView on the view's id
update_view_notify(c) ==
  /\ At(c, "update_notify")
  /\ LET view_pb == call[c].tmp
     IN  Send(notify_parent_view_did_change(c, mutex_folder, << view_pb.parent_view_id >>)
                \o << Notification(c, view_pb.id, "DidUpdateView", {view_pb}, {}) >>)
  /\ Finish(c, Returned(call[c].op, call[c].arg, Ok(Unit), call[c].handlers,
                        TRUE, call[c].inserted))
  /\ UNCHANGED << mutex_folder, view_rx, trash_rx, content, listeners >>

----------------------------------------------------------------------------
(* Calls on workspaces and handlers, and initialize *)

\* lines 153-156: the cloud service is awaited first
create_workspace(c) ==
  /\ CanStart(c)
  /\ Start(c, InFlight("create_workspace", "workspace_await", Unit, << >>, FALSE, FALSE, Unit))
  /\ Send(<< >>)
  /\ UNCHANGED << mutex_folder, view_rx, trash_rx, content, listeners >>

\* lines 156-166: the cloud's workspace is stored, made current and announced
create_workspace_store(c) ==
  /\ At(c, "workspace_await")
  /\ \/ /\ IF mutex_folder.is_some
           THEN mutex_folder' = Some(set_current_workspace_ptr(
                    [mutex_folder.folder EXCEPT !.workspaces = @ \cup {"W2"}], "W2"))
           ELSE UNCHANGED mutex_folder
        /\ Send(<< Notification(c, "workspace", "DidCreateWorkspace", {}, {}) >>)
        /\ Finish(c, Returned(call[c].op, call[c].arg, Ok("W2"), << >>,
                              mutex_folder.is_some, FALSE))
     \/ /\ UNCHANGED mutex_folder
        /\ Send(<< >>)
        /\ Finish(c, Returned(call[c].op, call[c].arg, Err("CloudError", ""), << >>,
                              FALSE, FALSE))
  /\ UNCHANGED << view_rx, trash_rx, content, listeners >>

\* lines 238-243: the view under the lock, then its handler
close_view(c) ==
  /\ CanStart(c)
  /\ \E view_id \in ViewIds :
       IF ~(mutex_folder.is_some /\ HasView(mutex_folder.folder, view_id))
       THEN Whole(c, Returned("close_view", view_id,
                              record_not_found("Can't find the view when closing the view"),
                              << >>, mutex_folder.is_some, FALSE))
       ELSE LET handler == get_handler(mutex_folder.folder.views[view_id].layout)
            IN  IF ~handler.ok
                THEN Whole(c, Returned("close_view", view_id, handler, << >>, TRUE, FALSE))
                ELSE Start(c, InFlight("close_view", "handler_await", view_id, << >>,
                                       TRUE, FALSE, "close_view"))
  /\ Send(<< >>)
  /\ UNCHANGED << mutex_folder, view_rx, trash_rx, content, listeners >>

\* lines 255-256
create_view_with_data(c) ==
  /\ CanStart(c)
  /\ \E view_id \in ViewIds, view_layout \in Layouts :
       LET handler == get_handler(view_layout)
       IN  IF ~handler.ok
           THEN Whole(c, Returned("create_view_with_data", view_id, handler, << >>,
                                  FALSE, FALSE))
           ELSE Start(c, InFlight("create_view_with_data", "handler_await", view_id, << >>,
                                  FALSE, FALSE, "create_view_with_view_data"))
  /\ Send(<< >>)
  /\ UNCHANGED << mutex_folder, view_rx, trash_rx, content, listeners >>

\* lines 244-245 and 257-267: the awaited handler call returns
handler_return(c) ==
  /\ At(c, "handler_await")
  /\ LET method == call[c].tmp
     IN  \/ /\ content' = IF method = "create_view_with_view_data"
                          THEN content \cup {call[c].arg} ELSE content
            /\ Finish(c, Returned(call[c].op, call[c].arg, Ok(Unit), << method >>,
                                  call[c].saw_some, FALSE))
         \/ /\ UNCHANGED content
            /\ Finish(c, Returned(call[c].op, call[c].arg, Err("HandlerError", method),
                                  << method >>, call[c].saw_some, FALSE))
  /\ Send(<< >>)
  /\ UNCHANGED << mutex_folder, view_rx, trash_rx, listeners >>

ViewA == View("A", "W", "n1", "d1", "Document")
ViewB == View("B", "A", "n1", "d1", "Document")
ViewBW == View("B", "W", "n2", "d1", "Document")

\* Folders the collab store may hold when initialize loads it
StoredFolders ==
  { EmptyFolder,
    [EmptyFolder EXCEPT !.views = [id \in {"A", "B"} |-> IF id = "A" THEN ViewA ELSE ViewB],
                        !.current_view = "A"],
    [EmptyFolder EXCEPT !.views = [id \in {"A", "B"} |-> IF id = "A" THEN ViewA ELSE ViewBW]],
    [EmptyFolder EXCEPT !.views = [id \in {"A", "B"} |-> IF id = "A" THEN ViewA ELSE ViewB],
                        !.trash = {"B"}] }

\* lines 97-120: with a collab db the snapshot is installed in the slot,
\* whatever the slot holds, and three listeners are spawned; without one
\* nothing happens
initialize(c) ==
  /\ CanStart(c)
  /\ \/ /\ \E folder \in StoredFolders :
             /\ mutex_folder' = Some(folder)
             /\ content' = content \cup DOMAIN folder.views
        /\ listening' = TRUE
        /\ stopped' = {}
        /\ Whole(c, Returned("initialize", "W", Ok(Unit), << >>, mutex_folder.is_some, FALSE))
     \/ /\ UNCHANGED << mutex_folder, content, listening, stopped >>
        /\ Whole(c, Returned("initialize", Unset, Ok(Unit), << >>, mutex_folder.is_some, FALSE))
  /\ Send(<< >>)
  /\ UNCHANGED << view_rx, trash_rx, trash_task, reload_task, nreloads, folder_state_rx,
                  dropped >>

\* The manager and with it the last Arc<MutexFolder> is dropped: no call is in
\* flight and no listener holds an upgraded reference.  The snapshot goes with
\* the cell, and with the snapshot the senders of its channels.
drop_manager ==
  /\ listening
  /\ ~dropped
  /\ \A c \in Callers : call[c] = Idle
  /\ trash_task.pc = "recv"
  /\ reload_task.pc = "recv"
  /\ dropped' = TRUE
  /\ mutex_folder' = NoFolder
  /\ Send(<< >>)
  /\ UNCHANGED << call, ret, ncalls, view_rx, trash_rx, content, listening, trash_task,
                  reload_task, nreloads, folder_state_rx, stopped >>

----------------------------------------------------------------------------
(* The listeners *)

\* A view listener that reacts to Created events only
listen_on_view_change_created_only ==
  /\ listening
  /\ view_rx # << >>
  /\ LET value == Head(view_rx)
     IN  IF value.type = "DidCreateView"
         THEN Send(notify_parent_view_did_change("view_listener", mutex_folder,
                                                 << value.parent_view_id >>))
         ELSE Send(<< >>)
  /\ view_rx' = Tail(view_rx)
  /\ UNCHANGED << mutex_folder, call, ret, ncalls, trash_rx, content, listeners >>

\* listen_on_view_change, lines 537-550: one turn of the loop.  recv() yields
\* the next event, or an error when the receiver has lagged or the channel is
\* closed and drained, and any error ends the `while let Ok`; an event is
\* skipped when the upgrade fails
listen_on_view_change ==
  /\ listening
  /\ "view" \notin stopped
  /\ IF view_rx = << >>
     THEN /\ dropped
          /\ stopped' = stopped \cup {"view"}
          /\ Send(<< >>)
          /\ UNCHANGED view_rx
     ELSE LET value == Head(view_rx)
          IN  /\ view_rx' = Tail(view_rx)
              /\ IF value.type = "Lagged"
                 THEN /\ stopped' = stopped \cup {"view"}
                      /\ Send(<< >>)
                 ELSE /\ UNCHANGED stopped
                      /\ IF ~dropped /\ value.type \in {"DidCreateView", "DidUpdate"}
                         THEN Send(notify_parent_view_did_change(
                                     "view_listener", mutex_folder,
                                     << value.parent_view_id >>))
                         ELSE Send(<< >>)
  /\ UNCHANGED << mutex_folder, call, ret, ncalls, trash_rx, content, listening,
                  trash_task, reload_task, nreloads, folder_state_rx, dropped >>

\* A trash listener that drains every pending event into one set of parents
listen_on_trash_change_recv_all ==
  /\ listening
  /\ trash_task.pc = "recv"
  /\ trash_rx # << >>
  /\ LET ids == UNION {trash_rx[i].ids : i \in DOMAIN trash_rx}
     IN  IF mutex_folder.is_some
         THEN LET f == mutex_folder.folder
                  unique_ids == {f.views[id].parent_view_id : id \in ids \cap DOMAIN f.views}
              IN  /\ trash_task' = [pc |-> "notify", unique_ids |-> unique_ids]
                  /\ Send(<< Notification("trash_listener", "trash", "DidUpdateTrash",
                                          {}, f.trash) >>)
         ELSE /\ trash_task' = [pc |-> "notify", unique_ids |-> {}]
              /\ Send(<< >>)
  /\ trash_rx' = << >>
  /\ UNCHANGED << mutex_folder, call, ret, ncalls, view_rx, content, listening,
                  reload_task, nreloads, folder_state_rx, dropped, stopped >>

\* listen_on_trash_change, lines 581-600: one turn of the loop up to the end of
\* its lock section.  recv() yields the next event or an error that ends the
\* loop; an event is skipped when the upgrade fails; otherwise, under the lock,
\* the parents of the affected views are collected and the trash list is sent
listen_on_trash_change_recv ==
  /\ listening
  /\ "trash" \notin stopped
  /\ trash_task.pc = "recv"
  /\ IF trash_rx = << >>
     THEN /\ dropped
          /\ stopped' = stopped \cup {"trash"}
          /\ Send(<< >>)
          /\ UNCHANGED << trash_rx, trash_task >>
     ELSE LET value == Head(trash_rx)
          IN  /\ trash_rx' = Tail(trash_rx)
              /\ IF value.type = "Lagged"
                 THEN /\ stopped' = stopped \cup {"trash"}
                      /\ Send(<< >>)
                      /\ UNCHANGED trash_task
                 ELSE IF dropped
                 THEN /\ Send(<< >>)
                      /\ UNCHANGED << stopped, trash_task >>
                 ELSE /\ UNCHANGED stopped
                      /\ IF mutex_folder.is_some
                         THEN LET f == mutex_folder.folder
                                  unique_ids == {f.views[id].parent_view_id :
                                                   id \in value.ids \cap DOMAIN f.views}
                              IN  /\ trash_task' = [pc |-> "notify",
                                                    unique_ids |-> unique_ids]
                                  /\ Send(<< Notification("trash_listener", "trash",
                                                          "DidUpdateTrash", {}, f.trash) >>)
                         ELSE /\ trash_task' = [pc |-> "notify", unique_ids |-> {}]
                              /\ Send(<< >>)
  /\ UNCHANGED << mutex_folder, call, ret, ncalls, view_rx, content, listening,
                  reload_task, nreloads, folder_state_rx, dropped >>

\* The orders in which a HashSet's into_iter may yield its elements
RECURSIVE Orders(_)
Orders(S) ==
  IF S = {} THEN { << >> }
  ELSE UNION { { << x >> \o rest : rest \in Orders(S \ {x}) } : x \in S }

\* listen_on_trash_change, lines 602-603: notify the collected parents
listen_on_trash_change_notify ==
  /\ trash_task.pc = "notify"
  /\ \E parent_view_ids \in Orders(trash_task.unique_ids) :
       Send(notify_parent_view_did_change("trash_listener", mutex_folder, parent_view_ids))
  /\ trash_task' = [pc |-> "recv"]
  /\ UNCHANGED << mutex_folder, call, ret, ncalls, view_rx, trash_rx, content, listening,
                  reload_task, nreloads, folder_state_rx, dropped, stopped >>

\* The collab signals a state change (remote sync); a watch channel keeps the
\* latest value only
collab_state_change ==
  /\ listening
  /\ ~dropped
  /\ nreloads < MaxReloads
  /\ \E is_root_changed \in BOOLEAN :
       folder_state_rx' = << [is_root_changed |-> is_root_changed] >>
  /\ nreloads' = nreloads + 1
  /\ Send(<< >>)
  /\ UNCHANGED << mutex_folder, call, ret, ncalls, view_rx, trash_rx, content, listening,
                  trash_task, reload_task, dropped, stopped >>

\* listen_on_folder_state_change, lines 561-565: one turn of the loop up to the
\* take.  next() yields the latest state, or nothing once the stream has ended,
\* which ends the loop; a root change takes the snapshot out of the slot if the
\* upgrade succeeds
listen_on_folder_state_change_take ==
  /\ listening
  /\ "reload" \notin stopped
  /\ reload_task.pc = "recv"
  /\ IF folder_state_rx = << >>
     THEN /\ dropped
          /\ stopped' = stopped \cup {"reload"}
          /\ UNCHANGED << folder_state_rx, mutex_folder, reload_task >>
     ELSE /\ folder_state_rx' = Tail(folder_state_rx)
          /\ UNCHANGED stopped
          /\ IF Head(folder_state_rx).is_root_changed /\ ~dropped /\ mutex_folder.is_some
             THEN /\ mutex_folder' = NoFolder
                  /\ reload_task' = [pc |-> "reload", folder |-> mutex_folder.folder]
             ELSE UNCHANGED << mutex_folder, reload_task >>
  /\ Send(<< >>)
  /\ UNCHANGED << call, ret, ncalls, view_rx, trash_rx, content, listening,
                  trash_task, nreloads, dropped >>

\* folder.reload(): the snapshot rebuilt from the collab, which may hold a
\* remote change (here: a remote rename of view A)
reload(f) ==
  {f} \cup {[f EXCEPT !.views["A"].name = "remote"] : x \in {"A"} \cap DOMAIN f.views}

\* A reload listener that announces the snapshot it took, not the rebuilt one
listen_on_folder_state_change_notify_stale ==
  /\ reload_task.pc = "reload"
  /\ \E reload_folder \in reload(reload_task.folder) :
       /\ Send(<< notify_did_update_workspace("reload_listener", "W", reload_task.folder) >>)
       /\ reload_task' = [pc |-> "install", folder |-> reload_folder]
  /\ UNCHANGED << mutex_folder, call, ret, ncalls, view_rx, trash_rx, content, listening,
                  trash_task, nreloads, folder_state_rx, dropped, stopped >>

\* lines 567-568: folder.reload(), notify_did_update_workspace(&workspace_id, ..)
listen_on_folder_state_change_notify ==
  /\ reload_task.pc = "reload"
  /\ \E reload_folder \in reload(reload_task.folder) :
       /\ Send(<< notify_did_update_workspace("reload_listener", "W", reload_folder) >>)
       /\ reload_task' = [pc |-> "install", folder |-> reload_folder]
  /\ UNCHANGED << mutex_folder, call, ret, ncalls, view_rx, trash_rx, content, listening,
                  trash_task, nreloads, folder_state_rx, dropped, stopped >>

\* line 569: *mutex_folder.lock() = Some(reload_folder)
listen_on_folder_state_change_install ==
  /\ reload_task.pc = "install"
  /\ mutex_folder' = Some(reload_task.folder)
  /\ reload_task' = [pc |-> "recv"]
  /\ Send(<< >>)
  /\ UNCHANGED << call, ret, ncalls, view_rx, trash_rx, content, listening,
                  trash_task, nreloads, folder_state_rx, dropped, stopped >>

----------------------------------------------------------------------------
(* Specifications *)

\* After initialize has loaded a stored folder
Init ==
  /\ Fresh
  /\ listening = TRUE
  /\ \E folder \in StoredFolders :
       /\ mutex_folder = Some(folder)
       /\ content = DOMAIN folder.views

\* Before initialize
InitUninitialized ==
  /\ Fresh
  /\ listening = FALSE
  /\ mutex_folder = NoFolder
  /\ content = {}

\* The calls on views and trash, one caller at a time, with the view and trash
\* listeners
Calls(c) ==
  \/ create_view_with_params(c)
  \/ create_view_handler(c)
  \/ create_view_insert(c)
  \/ create_view_notify(c)
  \/ import(c)
  \/ import_handler(c)
  \/ import_insert(c)
  \/ import_notify(c)
  \/ duplicate_view(c)
  \/ duplicate_view_handler(c)
  \/ get_view_call(c)
  \/ delete_view(c)
  \/ move_view_to_trash(c)
  \/ set_current_view(c)
  \/ restore_all_trash(c)
  \/ restore_trash(c)
  \/ delete_trash(c)
  \/ delete_all_trash(c)
  \/ get_workspace_views_call(c)
  \/ get_current_workspace_views(c)
  \/ get_current_workspace_views_list(c)

Next ==
  \/ Calls(1)
  \/ listen_on_view_change
  \/ listen_on_trash_change_recv
  \/ listen_on_trash_change_notify

Spec == Init /\ [][Next]_vars

\* A root reload racing with one caller's create_view_with_params
NextReload ==
  \/ create_view_with_params(1)
  \/ create_view_handler(1)
  \/ create_view_insert(1)
  \/ create_view_notify(1)
  \/ collab_state_change
  \/ listen_on_folder_state_change_take
  \/ listen_on_folder_state_change_notify
  \/ listen_on_folder_state_change_install
  \/ listen_on_view_change

SpecReload == Init /\ [][NextReload]_vars

ViewP == View("P", "W", "n1", "d1", "Document")

\* Stored folders with the sibling views A and B: under the workspace, under view P
SiblingFolders ==
  { [EmptyFolder EXCEPT !.views = [id \in {"A", "B"} |-> IF id = "A" THEN ViewA ELSE ViewBW]],
    [EmptyFolder EXCEPT !.views = [id \in {"A", "B", "P"} |->
                                     IF id = "P" THEN ViewP
                                     ELSE View(id, "P", "n1", "d1", "Document")]] }

InitSiblings ==
  /\ Fresh
  /\ listening = TRUE
  /\ \E folder \in SiblingFolders :
       /\ mutex_folder = Some(folder)
       /\ content = DOMAIN folder.views

\* Two callers trashing views while the trash listener runs
NextTrash ==
  \/ \E c \in Callers : move_view_to_trash(c)
  \/ \E c \in Callers : get_view_call(c)
  \/ listen_on_trash_change_recv
  \/ listen_on_trash_change_notify

SpecTrash == InitSiblings /\ [][NextTrash]_vars

\* The calls before initialize has loaded a snapshot
NextUninitialized ==
  \/ create_view_with_params(1)
  \/ create_view_handler(1)
  \/ create_view_insert(1)
  \/ create_view_notify(1)
  \/ import(1)
  \/ import_handler(1)
  \/ import_insert(1)
  \/ import_notify(1)
  \/ duplicate_view(1)
  \/ get_view_call(1)
  \/ get_views_belong_to_call(1)
  \/ delete_view(1)
  \/ move_view_to_trash(1)
  \/ move_view(1)
  \/ update_view_with_params(1)
  \/ update_view_fetch(1)
  \/ set_current_view(1)
  \/ get_current_view(1)
  \/ close_view(1)
  \/ create_view_with_data(1)
  \/ handler_return(1)
  \/ get_all_trash(1)
  \/ restore_all_trash(1)
  \/ restore_trash(1)
  \/ delete_trash(1)
  \/ delete_all_trash(1)
  \/ get_current_workspace(1)
  \/ get_current_workspace_views(1)
  \/ get_workspace_views_call(1)
  \/ create_workspace(1)
  \/ create_workspace_store(1)
  \/ open_workspace(1)
  \/ get_workspace(1)
  \/ get_all_workspaces(1)

SpecUninitialized == InitUninitialized /\ [][NextUninitialized]_vars

\* A stored folder with a view whose parent is in no map: A under the
\* workspace, B under the missing view P, both trashed
OrphanFolder ==
  [EmptyFolder EXCEPT !.views = [id \in {"A", "B"} |->
                                   IF id = "A" THEN ViewA
                                   ELSE View("B", "P", "n1", "d1", "Document")],
                      !.trash = {"A", "B"}]

InitTrash ==
  /\ Fresh
  /\ listening = TRUE
  /\ \E folder \in StoredFolders \cup {OrphanFolder} :
       /\ mutex_folder = Some(folder)
       /\ content = DOMAIN folder.views

\* One caller's trash calls, with the trash and view listeners
NextTrashOps ==
  \/ move_view_to_trash(1)
  \/ restore_trash(1)
  \/ delete_trash(1)
  \/ restore_all_trash(1)
  \/ delete_all_trash(1)
  \/ get_view_call(1)
  \/ get_all_trash(1)
  \/ listen_on_trash_change_recv
  \/ listen_on_trash_change_notify
  \/ listen_on_view_change

SpecTrashOps == InitTrash /\ [][NextTrashOps]_vars

\* One caller's workspace calls
NextWorkspace ==
  \/ open_workspace(1)
  \/ create_workspace(1)
  \/ create_workspace_store(1)
  \/ get_current_workspace(1)
  \/ get_workspace(1)
  \/ get_all_workspaces(1)
  \/ get_current_workspace_views(1)
  \/ get_current_workspace_views_list(1)

SpecWorkspace == Init /\ [][NextWorkspace]_vars

\* Before or after initialize
InitEither == Init \/ InitUninitialized

\* One caller updating, creating and deleting views, with the view listener
NextUpdate ==
  \/ update_view_with_params(1)
  \/ update_view_handler(1)
  \/ update_view_fetch(1)
  \/ update_view_notify(1)
  \/ create_view_with_params(1)
  \/ create_view_handler(1)
  \/ create_view_insert(1)
  \/ create_view_notify(1)
  \/ delete_view(1)
  \/ listen_on_view_change

SpecUpdate == InitEither /\ [][NextUpdate]_vars

\* One caller trashing and restoring views while the trash listener runs and
\* the snapshot is reloaded
NextTrashReload ==
  \/ move_view_to_trash(1)
  \/ restore_trash(1)
  \/ listen_on_trash_change_recv
  \/ listen_on_trash_change_notify
  \/ collab_state_change
  \/ listen_on_folder_state_change_take
  \/ listen_on_folder_state_change_notify
  \/ listen_on_folder_state_change_install

SpecTrashReload == Init /\ [][NextTrashReload]_vars

----------------------------------------------------------------------------
(* The lock sections of the multi-step mutations, step by step *)

\* update_view_with_params holding the lock while it awaits the hook
LockedPcs_across_await ==
  {"delete_trash_views", "delete_all_trash_views", "trash_current_view", "update_locked",
   "update_await"}


\* The positions of a caller inside a with_folder closure, holding the lock
LockedPcs ==
  {"delete_trash_views", "delete_all_trash_views", "trash_current_view", "update_locked"}

\* A lock() that does not wait for the holder
lock_ignored == TRUE

\* The trash listener keeping the guard of line 590 until its turn ends
lock_free_guard_kept ==
  /\ {c \in Callers : call[c] # Idle /\ call[c].pc \in LockedPcs} = {}
  /\ trash_task.pc = "recv"

\* self.mutex_folder.lock(), line 190, and folder.lock() in the listeners: it
\* returns when no one holds the lock
lock_free == {c \in Callers : call[c] # Idle /\ call[c].pc \in LockedPcs} = {}

\* line 459: the lock is taken, the trash record removed
delete_trash_lock(c) ==
  /\ CanStart(c)
  /\ lock_free
  /\ mutex_folder.is_some
  /\ \E trash_id \in ViewIds :
       LET f == mutex_folder.folder
       IN  /\ mutex_folder' = Some(delete_trash_records(f, {trash_id}))
           /\ trash_rx' = broadcast_send_all(trash_rx, DeleteTrashEvents(f, {trash_id}))
           /\ Start(c, InFlight("delete_trash", "delete_trash_views", trash_id, << >>,
                                TRUE, FALSE, Unit))
  /\ Send(<< >>)
  /\ UNCHANGED << view_rx, content, listeners >>

\* lines 460-461: the view deleted, the lock released
delete_trash_views(c) ==
  /\ At(c, "delete_trash_views")
  /\ LET f == mutex_folder.folder
     IN  /\ mutex_folder' = Some(delete_views(f, {call[c].arg}))
         /\ view_rx' = broadcast_send_all(view_rx, DeleteViewEvents(f, {call[c].arg}))
  /\ Finish(c, Returned(call[c].op, call[c].arg, Ok(Unit), << >>, TRUE, FALSE))
  /\ Send(<< >>)
  /\ UNCHANGED << trash_rx, content, listeners >>

\* lines 467-468: the lock is taken, the trash list read and cleared
delete_all_trash_lock(c) ==
  /\ CanStart(c)
  /\ lock_free
  /\ mutex_folder.is_some
  /\ LET f == mutex_folder.folder
     IN  /\ mutex_folder' = Some(clear_trash(f))
         /\ trash_rx' = broadcast_send_all(trash_rx, DeleteTrashEvents(f, f.trash))
         /\ Start(c, InFlight("delete_all_trash", "delete_all_trash_views", Unit, << >>,
                              TRUE, FALSE, f.trash))
  /\ Send(<< >>)
  /\ UNCHANGED << view_rx, content, listeners >>

\* lines 469-474: the trashed views deleted, the lock released, the empty list sent
delete_all_trash_views(c) ==
  /\ At(c, "delete_all_trash_views")
  /\ LET f == mutex_folder.folder
     IN  /\ mutex_folder' = Some(delete_views(f, call[c].tmp))
         /\ view_rx' = broadcast_send_all(view_rx, DeleteViewEvents(f, call[c].tmp))
  /\ Finish(c, Returned(call[c].op, call[c].arg, Ok(Unit), << >>, TRUE, FALSE))
  /\ Send(<< Notification(c, "trash", "DidUpdateTrash", {}, {}) >>)
  /\ UNCHANGED << trash_rx, content, listeners >>

\* lines 315-316: the lock is taken, the trash record added
move_view_to_trash_lock(c) ==
  /\ CanStart(c)
  /\ lock_free
  /\ mutex_folder.is_some
  /\ \E view_id \in ViewIds :
       /\ mutex_folder' = Some(add_trash(mutex_folder.folder, {view_id}))
       /\ trash_rx' = broadcast_send(trash_rx, DidCreateTrash({view_id}))
       /\ Start(c, InFlight("move_view_to_trash", "trash_current_view", view_id, << >>,
                            TRUE, FALSE, Unit))
  /\ Send(<< >>)
  /\ UNCHANGED << view_rx, content, listeners >>

\* lines 319-325: the current view cleared if it is the trashed one, the lock released
move_view_to_trash_current(c) ==
  /\ At(c, "trash_current_view")
  /\ LET f == mutex_folder.folder
     IN  mutex_folder' = Some(IF f.current_view # Unset /\ f.current_view = call[c].arg
                              THEN set_current_view_ptr(f, Empty) ELSE f)
  /\ Finish(c, Returned(call[c].op, call[c].arg, Ok(Unit), << >>, TRUE, FALSE))
  /\ Send(<< >>)
  /\ UNCHANGED << view_rx, trash_rx, content, listeners >>

\* The readers, each behind the lock
locked_get_view(c) == lock_free /\ get_view_call(c)
locked_get_all_trash(c) == lock_free /\ get_all_trash(c)
locked_get_workspace_views(c) == lock_free /\ get_workspace_views_call(c)
locked_view_listener == lock_free /\ listen_on_view_change
locked_trash_listener_recv == lock_free /\ listen_on_trash_change_recv
locked_trash_listener_notify == lock_free /\ listen_on_trash_change_notify

\* Two callers: the multi-step mutations and the readers, with the listeners
NextLock ==
  \/ \E c \in Callers : delete_trash_lock(c)
  \/ \E c \in Callers : delete_trash_views(c)
  \/ \E c \in Callers : delete_all_trash_lock(c)
  \/ \E c \in Callers : delete_all_trash_views(c)
  \/ \E c \in Callers : move_view_to_trash_lock(c)
  \/ \E c \in Callers : move_view_to_trash_current(c)
  \/ \E c \in Callers : locked_get_view(c)
  \/ \E c \in Callers : locked_get_all_trash(c)
  \/ \E c \in Callers : locked_get_workspace_views(c)
  \/ locked_view_listener
  \/ locked_trash_listener_recv
  \/ locked_trash_listener_notify

SpecLock == Init /\ [][NextLock]_vars

\* A loaded session: A under the workspace, B under A
InitNested ==
  /\ Fresh
  /\ listening = TRUE
  /\ mutex_folder = Some([EmptyFolder EXCEPT
                            !.views = [id \in {"A", "B"} |-> IF id = "A" THEN ViewA ELSE ViewB],
                            !.current_view = "A"])
  /\ content = {"A", "B"}

\* One caller creating and trashing views with the three listeners running,
\* until the manager is dropped and the listeners wind down
NextDrop ==
  \/ create_view_with_params(1)
  \/ create_view_handler(1)
  \/ create_view_insert(1)
  \/ create_view_notify(1)
  \/ move_view_to_trash(1)
  \/ collab_state_change
  \/ listen_on_folder_state_change_take
  \/ listen_on_folder_state_change_notify
  \/ listen_on_folder_state_change_install
  \/ listen_on_view_change
  \/ listen_on_trash_change_recv
  \/ listen_on_trash_change_notify
  \/ drop_manager

SpecDrop == InitNested /\ [][NextDrop]_vars

\* A loaded session whose view listener, or whose trash listener, has not been
\* scheduled while the engine emitted as many events as the channel holds
\* (B updated, or B trashed and restored, over and over); the counters start here
InitBacklog ==
  /\ call = [c \in Callers |-> Idle]
  /\ ret = [c \in Callers |-> NoReturn]
  /\ ncalls = 0
  /\ \/ /\ view_rx = [i \in 1..channel_capacity |-> DidUpdate(ViewB)]
        /\ trash_rx = << >>
     \/ /\ view_rx = << >>
        /\ trash_rx = [i \in 1..channel_capacity |->
                         IF i % 2 = 1 THEN DidCreateTrash({"B"}) ELSE DidDeleteTrash({"B"})]
  /\ folder_state_rx = << >>
  /\ trash_task = [pc |-> "recv"]
  /\ reload_task = [pc |-> "recv"]
  /\ nreloads = 0
  /\ out = << >>
  /\ notified = [t \in Topics |-> 0]
  /\ dropped = FALSE
  /\ stopped = {}
  /\ listening = TRUE
  /\ mutex_folder = Some([EmptyFolder EXCEPT
                            !.views = [id \in {"A", "B"} |-> IF id = "A" THEN ViewA ELSE ViewB],
                            !.current_view = "A"])
  /\ content = {"A", "B"}

\* One caller deleting and trashing views on top of the backlog, with the view
\* and trash listeners
NextBacklog ==
  \/ delete_view(1)
  \/ move_view_to_trash(1)
  \/ listen_on_view_change
  \/ listen_on_trash_change_recv
  \/ listen_on_trash_change_notify

SpecBacklog == InitBacklog /\ [][NextBacklog]_vars

\* One caller from before initialize on: initialize, then calls of every kind
\* while the snapshot may be reloaded
NextSession ==
  \/ initialize(1)
  \/ create_view_with_params(1)
  \/ create_view_handler(1)
  \/ create_view_insert(1)
  \/ create_view_notify(1)
  \/ import(1)
  \/ import_handler(1)
  \/ import_insert(1)
  \/ import_notify(1)
  \/ update_view_with_params(1)
  \/ update_view_handler(1)
  \/ update_view_fetch(1)
  \/ update_view_notify(1)
  \/ move_view(1)
  \/ move_view_notify(1)
  \/ move_view_to_trash(1)
  \/ delete_all_trash(1)
  \/ open_workspace(1)
  \/ create_workspace(1)
  \/ create_workspace_store(1)
  \/ collab_state_change
  \/ listen_on_folder_state_change_take
  \/ listen_on_folder_state_change_notify
  \/ listen_on_folder_state_change_install

SpecSession == InitUninitialized /\ [][NextSession]_vars

----------------------------------------------------------------------------
(* The await points of the calls that invoke a content handler *)

\* The positions of a caller suspended at an .await: on a content handler
\* (lines 211, 224, 244, 266, 373, 397, 490, 496) or on the cloud service (156)
AwaitPcs ==
  {"create_await", "import_await", "duplicate_await", "update_await", "handler_await",
   "workspace_await"}

\* lines 359-360: with_folder takes the lock and finds a snapshot
update_view_lock(c) ==
  /\ CanStart(c)
  /\ lock_free
  /\ mutex_folder.is_some
  /\ \E params \in UpdateViewParams :
       Start(c, InFlight("update_view_with_params", "update_locked", params, << >>,
                         TRUE, FALSE, Unit))
  /\ Send(<< >>)
  /\ UNCHANGED << mutex_folder, view_rx, trash_rx, content, listeners >>

\* lines 360-372: the update applied in the closure, the lock released, the old
\* layout's handler looked up
update_view_commit(c) ==
  /\ At(c, "update_locked")
  /\ LET params == call[c].arg
         f == mutex_folder.folder
     IN  IF HasView(f, params.view_id)
         THEN LET old_view == f.views[params.view_id]
                  new_view == update_view(old_view, params)
              IN  /\ mutex_folder' = Some(insert_view(f, new_view))
                  /\ view_rx' = broadcast_send(view_rx, DidUpdate(new_view))
                  /\ Step(c, [call[c] EXCEPT !.pc = IF get_handler(old_view.layout).ok
                                                    THEN "update_await"
                                                    ELSE "update_fetch"])
         ELSE /\ UNCHANGED << mutex_folder, view_rx >>
              /\ Step(c, [call[c] EXCEPT !.pc = "update_fetch"])
  /\ Send(<< >>)
  /\ UNCHANGED << trash_rx, content, listeners >>

\* Caller 1 updating views while caller 2 creates and reads views, each lock
\* section behind the lock
NextAwait ==
  \/ update_view_lock(1)
  \/ update_view_commit(1)
  \/ update_view_handler(1)
  \/ lock_free /\ update_view_fetch(1)
  \/ lock_free /\ update_view_notify(1)
  \/ create_view_with_params(2)
  \/ create_view_handler(2)
  \/ lock_free /\ create_view_insert(2)
  \/ lock_free /\ create_view_notify(2)
  \/ locked_get_view(2)

SpecAwait == InitNested /\ [][NextAwait]_vars

\* Caller 1 trashing views, caller 2 closing views, the trash listener and the
\* reload listener, each lock section behind the lock
NextFair ==
  \/ move_view_to_trash_lock(1)
  \/ move_view_to_trash_current(1)
  \/ lock_free /\ close_view(2)
  \/ handler_return(2)
  \/ locked_trash_listener_recv
  \/ locked_trash_listener_notify
  \/ collab_state_change
  \/ lock_free /\ listen_on_folder_state_change_take
  \/ listen_on_folder_state_change_notify
  \/ lock_free /\ listen_on_folder_state_change_install

\* A step of a caller leaves the listeners where they are, a step of a listener
\* leaves the calls as they are
CallerStep(A) == UNCHANGED << trash_task, reload_task >> /\ A
ListenerStep(A) == UNCHANGED call /\ A

\* Every task that is ready is eventually polled, an awaited handler returns,
\* and the lock (parking_lot's Mutex is eventually fair) is eventually granted
\* to a task that keeps asking for it
Fairness ==
  /\ WF_<< call, trash_task, reload_task >>(CallerStep(move_view_to_trash_current(1)))
  /\ WF_<< call, trash_task, reload_task >>(CallerStep(handler_return(2)))
  /\ SF_<< call, trash_task, reload_task >>(ListenerStep(locked_trash_listener_recv))
  /\ SF_<< call, trash_task, reload_task >>(ListenerStep(locked_trash_listener_notify))
  /\ SF_<< call, trash_task, reload_task >>(ListenerStep(lock_free /\ listen_on_folder_state_change_take))
  /\ WF_<< call, trash_task, reload_task >>(ListenerStep(listen_on_folder_state_change_notify))
  /\ SF_<< call, trash_task, reload_task >>(ListenerStep(lock_free /\ listen_on_folder_state_change_install))

SpecFair == InitNested /\ [][NextFair]_vars /\ Fairness

----------------------------------------------------------------------------
(* Vocabulary of the properties *)

\* This step is caller c returning from a call of `op`
Returning(c) == ret'[c] # ret[c]
Returns(c, op) == Returning(c) /\ ret'[c].op = op

\* This step is a call of `op` that starts and returns in one lock section
SingleSection(c, op) == call[c] = Idle /\ Returns(c, op)

IsNotFound(result) == ~result.ok /\ result.code = "RecordNotFound"

Children(f, parent) == get_views_belong_to(f, parent)

----------------------------------------------------------------------------
(* C1 *)

----------------------------------------------------------------------------
(* C2 *)

\* The view ids a notification lists as children (and, for a workspace, as its
\* top-level views)
ListedInNotification(n) ==
  (IF n.kind = "DidUpdateWorkspaceViews" THEN {pb.id : pb \in n.views} ELSE {})
    \cup UNION {pb.child_views : pb \in n.views}

\* The view ids a call's result lists
ListedInResult(r) ==
  IF ~r.result.ok THEN {}
  ELSE IF r.op = "get_view" THEN r.result.value.child_views
  ELSE IF r.op \in {"get_workspace_views", "get_current_workspace_views"}
       THEN {pb.id : pb \in r.result.value}
              \cup UNION {pb.child_views : pb \in r.result.value}
  ELSE {}

\* C2: no view whose id is in Trash appears in a child-view listing: not in the
\* children of a get_view result, not in a ChildViewsUpdated payload, and not
\* among the top-level views or their nested child lists of get_workspace_views
\* results and WorkspaceViewsUpdated payloads.
C2_NoTrashedViewListed ==
  [][ \A f \in TheFolders' :
        /\ \A i \in DOMAIN out' : ListedInNotification(out'[i]) \cap f.trash = {}
        /\ \A c \in Callers :
             Returning(c) => ListedInResult(ret'[c]) \cap f.trash = {}
    ]_vars

----------------------------------------------------------------------------
(* C3 *)

\* C3: move_view_to_trash(v) on a loaded snapshot sets the current-view pointer
\* to empty when the pointer equals v and leaves it unchanged otherwise (also
\* when it is unset).
C3_TrashClearsCurrentViewOnly ==
  [][ \A c \in Callers :
        SingleSection(c, "move_view_to_trash") /\ mutex_folder.is_some
          => LET current == mutex_folder.folder.current_view
             IN  mutex_folder'.folder.current_view =
                   IF current = ret'[c].arg THEN Empty ELSE current
    ]_vars

\* The current view has just been trashed and the pointer is empty
C3_Witness ==
  /\ ret[1].op = "move_view_to_trash"
  /\ mutex_folder.is_some
  /\ mutex_folder.folder.current_view = Empty
  /\ ret[1].arg \in mutex_folder.folder.trash

----------------------------------------------------------------------------
(* C6 *)

CreatingOps == {"create_view_with_params", "import", "duplicate_view"}

IsHandlerError(result) == ~result.ok /\ result.code = "HandlerError"

\* C6: in create_view_with_params, import and duplicate_view a failed handler
\* call makes the call return that error with the tree unchanged: the call has
\* inserted no view and sent no notification.  So every view in the tree has
\* had its content materialized by a handler before it was inserted.
C6_HandlerFailureAbortsBeforeInsert ==
  /\ [](\A f \in TheFolders : DOMAIN f.views \subseteq content)
  /\ [](\A c \in Callers :
          ret[c].op \in CreatingOps /\ IsHandlerError(ret[c].result) => ~ret[c].inserted)
  /\ [][ \A c \in Callers :
           /\ Returning(c) /\ ret'[c].op \in CreatingOps /\ IsHandlerError(ret'[c].result)
                => /\ mutex_folder' = mutex_folder
                   /\ view_rx' = view_rx
                   /\ out' = << >>
           \* until its last step the call sends nothing and has inserted nothing
           /\ call[c] # Idle /\ call[c].op \in CreatingOps /\ call'[c] # call[c]
                => /\ call[c].pc \notin {"create_notify", "import_notify"} => out' = << >>
                   /\ call[c].pc \notin {"create_insert", "import_insert"}
                        => mutex_folder' = mutex_folder
     ]_vars

\* duplicate_view has failed in the handler call that creates the copy's content
C6_Witness ==
  /\ ret[1].op = "duplicate_view"
  /\ IsHandlerError(ret[1].result)
  /\ Len(ret[1].handlers) = 2
  /\ ~ret[1].inserted

----------------------------------------------------------------------------
(* C8, C9 *)

IsInvalidData(result) == ~result.ok /\ result.code = "InvalidData"

\* C8: import with neither data nor file path fails with InvalidData before any
\* handler is looked up or invoked (also for a layout without a handler), and
\* leaves the tree unchanged with no notification sent.
C8_ImportNeitherIsInvalidData ==
  /\ [](\A c \in Callers :
          ret[c].op = "import" /\ ~ret[c].arg.data /\ ~ret[c].arg.file_path
            => /\ IsInvalidData(ret[c].result)
               /\ ret[c].handlers = << >>
               /\ ~ret[c].inserted)
  /\ [][ \A c \in Callers :
           Returns(c, "import") /\ ~ret'[c].arg.data /\ ~ret'[c].arg.file_path
             => /\ call[c] = Idle
                /\ mutex_folder' = mutex_folder
                /\ content' = content
                /\ view_rx' = view_rx
                /\ out' = << >>
     ]_vars

\* import with neither, for a layout no handler is registered for
C8_Witness ==
  /\ ret[1].op = "import"
  /\ ~ret[1].arg.data /\ ~ret[1].arg.file_path
  /\ ret[1].arg.view_layout \notin operation_handlers
  /\ IsInvalidData(ret[1].result)

\* C9 as claimed: import with both data and a file path (and a registered
\* handler) fails with InvalidData, invokes no import handler, inserts no view.
C9_ImportBothIsInvalidData ==
  \A c \in Callers :
    /\ ret[c].op = "import"
    /\ ret[c].arg.data /\ ret[c].arg.file_path
    /\ ret[c].arg.view_layout \in operation_handlers
    => /\ IsInvalidData(ret[c].result)
       /\ ret[c].handlers = << >>
       /\ ~ret[c].inserted

\* C9 amended: import fails with InvalidData exactly when neither data nor file
\* path is given.  With both (and a registered handler) it invokes
\* import_from_bytes and then import_from_file_path; it fails only with a
\* handler's error, and when both succeed it inserts the view (if a snapshot is
\* loaded) and returns it.
C9_ImportNeedsAtLeastOne ==
  \A c \in Callers :
    ret[c].op = "import" =>
      /\ IsInvalidData(ret[c].result) <=> (~ret[c].arg.data /\ ~ret[c].arg.file_path)
      /\ ret[c].arg.data /\ ret[c].arg.file_path
           /\ ret[c].arg.view_layout \in operation_handlers
           => /\ ret[c].handlers \in {<< "import_from_bytes" >>,
                                      << "import_from_bytes", "import_from_file_path" >>}
              /\ ~ret[c].result.ok => IsHandlerError(ret[c].result)
              /\ ret[c].result.ok
                   => /\ Len(ret[c].handlers) = 2
                      /\ ret[c].saw_some => ret[c].inserted

\* import with both has succeeded and inserted its view
C9_Witness ==
  /\ ret[1].op = "import"
  /\ ret[1].arg.data /\ ret[1].arg.file_path
  /\ ret[1].result.ok
  /\ ret[1].handlers = << "import_from_bytes", "import_from_file_path" >>
  /\ ret[1].inserted
  /\ mutex_folder.is_some /\ HasView(mutex_folder.folder, ret[1].result.value.id)

----------------------------------------------------------------------------
(* C10 *)

\* get_view(p.view_id) in this state returns p's id, name, layout and parent
RoundTrip(slot, p) ==
  LET got == get_view(slot, p.view_id)
  IN  /\ got.ok
      /\ got.value.id = p.view_id
      /\ got.value.name = p.name
      /\ got.value.layout = p.layout
      /\ got.value.parent_view_id = p.parent_view_id

\* C10 as claimed: right after a successful create_view_with_params(p) on a
\* loaded snapshot, get_view(p.view_id) returns a view with p's id, name, layout
\* and parent and an empty child list.
C10_CreateThenGetView ==
  [][ \A c \in Callers :
        Returns(c, "create_view_with_params") /\ ret'[c].result.ok /\ mutex_folder'.is_some
          => /\ RoundTrip(mutex_folder', ret'[c].arg)
             /\ get_view(mutex_folder', ret'[c].arg.view_id).value.child_views = {}
    ]_vars

\* C10 amended: the same, provided p.view_id is not in Trash; and the child list
\* is empty provided no untrashed view already names p.view_id as its parent.
C10_CreateThenGetViewOfFreshId ==
  [][ \A c \in Callers :
        Returns(c, "create_view_with_params") /\ ret'[c].result.ok /\ mutex_folder'.is_some
          => LET p == ret'[c].arg
                 f == mutex_folder'.folder
             IN  /\ p.view_id \in f.trash => IsNotFound(get_view(mutex_folder', p.view_id))
                 /\ p.view_id \notin f.trash
                      => /\ RoundTrip(mutex_folder', p)
                         /\ get_view(mutex_folder', p.view_id).value.child_views
                              = Children(f, p.view_id) \ f.trash
    ]_vars

\* A created view read back, with no children
C10_Witness ==
  /\ ret[1].op = "create_view_with_params"
  /\ ret[1].result.ok
  /\ mutex_folder.is_some
  /\ RoundTrip(mutex_folder, ret[1].arg)
  /\ get_view(mutex_folder, ret[1].arg.view_id).value.child_views = {}

----------------------------------------------------------------------------
(* C4 *)

\* C4 as claimed: when a create_view_with_params call that a root reload
\* interleaves with has returned success, its view is in the snapshot installed
\* after the reload; a call that could not insert returns a failure.
C4_CreateCommitsOrFails ==
  \A c \in Callers :
    ret[c].op = "create_view_with_params" /\ ret[c].result.ok
      /\ mutex_folder.is_some /\ reload_task.pc = "recv"
      => HasView(mutex_folder.folder, ret[c].arg.view_id)

----------------------------------------------------------------------------
(* C5 *)

\* The parent of the sibling views
SiblingParent == mutex_folder.folder.views["A"].parent_view_id

Quiescent ==
  /\ \A c \in Callers : call[c] = Idle
  /\ trash_rx = << >>
  /\ trash_task.pc = "recv"

TrashedSiblings ==
  /\ ret[1].op = "move_view_to_trash"
  /\ ret[2].op = "move_view_to_trash"
  /\ ret[1].arg # ret[2].arg

\* C5 as claimed: once two callers have trashed two distinct siblings and the
\* trash listener has caught up, their parent has got exactly one child-view
\* notification.
C5_OneNotificationForSiblings ==
  Quiescent /\ TrashedSiblings /\ ncalls = 2 => notified[SiblingParent] = 1

\* Trash events the listener has not yet turned into notifications
PendingTrashEvents ==
  Len(trash_rx) + (IF trash_task.pc = "notify" THEN 1 ELSE 0)

MovesToTrash == Cardinality({c \in Callers : ret[c].op = "move_view_to_trash"})

\* C5 amended: every move_view_to_trash call emits its own trash event and the
\* listener sends the parent one child-view notification per event; parent ids
\* are deduplicated within one event only.  N calls on siblings give N
\* notifications for their parent once the listener has caught up.
C5_OneNotificationPerTrashEvent ==
  /\ [](/\ MovesToTrash <= notified[SiblingParent] + PendingTrashEvents
        /\ \A t \in Topics \ {SiblingParent} : notified[t] = 0
        /\ trash_task.pc = "notify" => trash_task.unique_ids = {SiblingParent}
        /\ Quiescent /\ TrashedSiblings => notified[SiblingParent] >= 2)
  /\ [][ /\ \A c \in Callers :
              SingleSection(c, "move_view_to_trash")
                => trash_rx' = Append(trash_rx, DidCreateTrash({ret'[c].arg}))
         /\ trash_task.pc = "recv" /\ trash_task'.pc = "notify"
              => trash_rx' = Tail(trash_rx)
         /\ notified'[SiblingParent] =
              notified[SiblingParent]
                + (IF trash_task.pc = "notify" /\ trash_task'.pc = "recv" THEN 1 ELSE 0)
     ]_vars

\* Both siblings trashed, the listener has caught up, two notifications
C5_Witness ==
  /\ Quiescent
  /\ TrashedSiblings
  /\ ncalls = 2
  /\ SiblingParent = "P"
  /\ mutex_folder.folder.trash = {"A", "B"}
  /\ notified["P"] = 2

----------------------------------------------------------------------------
(* C7 *)

ListOps ==
  {"get_workspace_views", "get_current_workspace_views", "get_all_workspaces",
   "get_views_belong_to", "get_all_trash"}
OptionOps == {"get_current_view", "get_workspace"}
UnitOps ==
  {"delete_view", "move_view_to_trash", "restore_all_trash", "restore_trash",
   "delete_trash", "delete_all_trash", "set_current_view", "move_view",
   "update_view_with_params", "close_view", "create_view_with_data", "duplicate_view"}

\* The call returned the default of its result type: an empty list, no value,
\* unit; a call that returns a view or a workspace has no default
IsDefault(returned) ==
  CASE returned.op \in ListOps -> returned.result.value = {}
    [] returned.op \in OptionOps -> returned.result.value = None
    [] returned.op \in UnitOps -> returned.result.value = Unit
    [] OTHER -> FALSE

\* Failures that an argument, a handler or the cloud causes, whatever the slot holds
IsOwnFailure(result) ==
  \/ result.code \in {"InvalidData", "HandlerError", "CloudError"}
  \/ result.code = "Internal" /\ result.context \notin {"", "Folder not initialized"}

IsNotInitialized(result) ==
  result.code = "Internal" /\ result.context \in {"", "Folder not initialized"}

\* C7 as claimed: while the slot is empty every call other than initialize
\* leaves it empty, and returns its default result or fails with a not-found or
\* not-initialized error (or with an error of its arguments, handler or cloud).
C7_AbsentSnapshotNoOpOrFailure ==
  /\ mutex_folder = NoFolder
  /\ \A c \in Callers :
       ret[c].op \notin {"none", "initialize"} =>
         IF ret[c].result.ok
         THEN IsDefault(ret[c])
         ELSE \/ IsNotFound(ret[c].result)
              \/ IsNotInitialized(ret[c].result)
              \/ IsOwnFailure(ret[c].result)

----------------------------------------------------------------------------
(* C11 *)

EmptyTrashUpdated(c) == << Notification(c, "trash", "DidUpdateTrash", {}, {}) >>

\* C11: restore_all_trash and delete_all_trash return without error, leave the
\* trash empty and send one TrashUpdated notification with an empty list on the
\* trash topic, also when the trash was empty already; a call that follows a
\* call of the same operation changes nothing, so twice gives what once gives.
C11_EmptyingTrashIsIdempotent ==
  [][ \A c \in Callers :
        /\ SingleSection(c, ret'[c].op)
        /\ ret'[c].op \in {"restore_all_trash", "delete_all_trash"}
        /\ mutex_folder.is_some
        => /\ ret'[c].result = Ok(Unit)
           /\ mutex_folder'.is_some
           /\ mutex_folder'.folder.trash = {}
           /\ out' = EmptyTrashUpdated(c)
           /\ mutex_folder.folder.trash = {} => mutex_folder' = mutex_folder
           /\ ret[c].op = ret'[c].op /\ ret[c].n = ncalls => mutex_folder' = mutex_folder
    ]_vars

\* delete_all_trash called a second time: the first call's events are still
\* queued, the second call has sent its notification
C11_Witness ==
  /\ ret[1].op = "delete_all_trash"
  /\ ret[1].n = 2
  /\ trash_rx = << DidDeleteTrash({"A", "B"}) >>
  /\ Len(view_rx) = 1
  /\ mutex_folder.folder.trash = {}
  /\ out = EmptyTrashUpdated(1)

----------------------------------------------------------------------------
(* C12 *)

\* The views of f other than those in ids are the same in g, and g has no others
SameViewsBut(f, g, ids) ==
  /\ DOMAIN g.views = DOMAIN f.views \ ids
  /\ \A id \in DOMAIN g.views : g.views[id] = f.views[id]

\* C12: on a loaded snapshot restore_trash(v) removes v's trash record and no
\* view, so that get_view(v) succeeds again for a view v; delete_trash(v) removes
\* the trash record and the view; restore_all_trash removes every trash record
\* and no view; delete_all_trash removes every trash record and exactly the
\* views that were trashed.  Nothing else of the tree changes.
C12_RestoreKeepsViewDeleteRemovesIt ==
  [][ \A c \in Callers :
        SingleSection(c, ret'[c].op) /\ mutex_folder.is_some
        => LET f == mutex_folder.folder
               g == mutex_folder'.folder
               v == ret'[c].arg
               Rest == /\ g.workspaces = f.workspaces
                       /\ g.current_workspace = f.current_workspace
                       /\ g.current_view = f.current_view
           IN  /\ ret'[c].op = "restore_trash"
                    => /\ g.trash = f.trash \ {v}
                       /\ g.views = f.views
                       /\ Rest
                       /\ HasView(f, v) => get_view(mutex_folder', v).ok
               /\ ret'[c].op = "delete_trash"
                    => /\ g.trash = f.trash \ {v}
                       /\ SameViewsBut(f, g, {v})
                       /\ Rest
               /\ ret'[c].op = "restore_all_trash"
                    => /\ g.trash = {}
                       /\ g.views = f.views
                       /\ Rest
               /\ ret'[c].op = "delete_all_trash"
                    => /\ g.trash = {}
                       /\ SameViewsBut(f, g, f.trash)
                       /\ Rest
    ]_vars

\* The trashed view B restored: its record is gone, get_view finds it again
C12_Witness ==
  /\ ret[1].op = "restore_trash"
  /\ ret[1].arg = "B"
  /\ trash_rx # << >>
  /\ trash_rx[Len(trash_rx)] = DidDeleteTrash({"B"})
  /\ mutex_folder.folder.trash = {}
  /\ get_view(mutex_folder, "B").ok

----------------------------------------------------------------------------
(* C13 *)

\* C13: open_workspace(id) on a loaded snapshot fails with NotFound and changes
\* nothing when no workspace has that id; otherwise it returns that workspace
\* and changes only the current-workspace marker, to id.
C13_OpenWorkspaceMovesOnlyTheMarker ==
  [][ \A c \in Callers :
        SingleSection(c, "open_workspace") /\ mutex_folder.is_some
        => LET f == mutex_folder.folder
               id == ret'[c].arg
           IN  IF id \notin f.workspaces
               THEN /\ IsNotFound(ret'[c].result)
                    /\ mutex_folder' = mutex_folder
               ELSE /\ ret'[c].result = Ok(id)
                    /\ mutex_folder'.is_some
                    /\ mutex_folder'.folder.current_workspace = id
                    /\ mutex_folder'.folder.workspaces = f.workspaces
                    /\ mutex_folder'.folder.views = f.views
                    /\ mutex_folder'.folder.trash = f.trash
                    /\ mutex_folder'.folder.current_view = f.current_view
    ]_vars

\* After create_workspace made W2 current, open_workspace("W") moved the marker back
C13_Witness ==
  /\ ret[1].op = "open_workspace"
  /\ ret[1].arg = "W"
  /\ ret[1].result = Ok("W")
  /\ mutex_folder.folder.workspaces = {"W", "W2"}
  /\ mutex_folder.folder.current_workspace = "W"

----------------------------------------------------------------------------
(* C14 *)

\* The parent id names the current workspace or a view of the views map
Resolvable(f, parent_view_id) ==
  \/ f.current_workspace # Unset /\ parent_view_id = f.current_workspace
  \/ f.current_workspace # Unset /\ HasView(f, parent_view_id)

\* The first step of update_view_with_params changes the supplied fields of
\* the target view and nothing else; its later steps change nothing of the tree
OnlySuppliedFieldsChange(c) ==
  /\ call[c] = Idle /\ call'[c] # Idle /\ call'[c].op = "update_view_with_params"
       => LET params == call'[c].arg
              id == params.view_id
          IN  IF mutex_folder.is_some /\ HasView(mutex_folder.folder, id)
              THEN LET f == mutex_folder.folder
                       g == mutex_folder'.folder
                   IN  /\ mutex_folder'.is_some
                       /\ g = [f EXCEPT !.views = g.views]
                       /\ DOMAIN g.views = DOMAIN f.views
                       /\ \A x \in DOMAIN f.views \ {id} : g.views[x] = f.views[x]
                       /\ g.views[id].id = id
                       /\ g.views[id].parent_view_id = f.views[id].parent_view_id
                       /\ g.views[id].name =
                            IF params.name = Unset THEN f.views[id].name ELSE params.name
                       /\ g.views[id].desc =
                            IF params.desc = Unset THEN f.views[id].desc ELSE params.desc
                       /\ g.views[id].layout =
                            IF params.layout = Unset THEN f.views[id].layout ELSE params.layout
              ELSE mutex_folder' = mutex_folder
  /\ call[c] # Idle /\ call[c].op = "update_view_with_params" /\ call'[c] # call[c]
       => mutex_folder' = mutex_folder

HasChildKindFor(ns, topic) ==
  \E i \in DOMAIN ns : IsChildKind(ns[i].kind) /\ ns[i].topic = topic

HasViewUpdatedFor(ns, topic) ==
  \E i \in DOMAIN ns : ns[i].kind = "DidUpdateView" /\ ns[i].topic = topic

\* C14 as claimed: update_view_with_params changes only the supplied fields;
\* when the view is fetchable afterwards the call sends a child-view
\* notification for the parent and ViewUpdated on the view's id; when it is not,
\* the call sends nothing and returns success.
C14_UpdateNotifiesWhenFetchable ==
  [][ \A c \in Callers :
        /\ OnlySuppliedFieldsChange(c)
        /\ Returns(c, "update_view_with_params")
             => LET id == ret'[c].arg.view_id
                    got == get_view(mutex_folder', id)
                IN  IF got.ok
                    THEN /\ HasChildKindFor(out', got.value.parent_view_id)
                         /\ HasViewUpdatedFor(out', id)
                    ELSE /\ out' = << >>
                         /\ ret'[c].result = Ok(Unit)
    ]_vars

\* C14 amended: update_view_with_params changes only the supplied fields.  If
\* the did_update_view hook fails the call returns that error, the update
\* applied and nothing sent.  Otherwise it returns success: when the view is
\* fetchable it sends ViewUpdated on the view's id, preceded by one child-view
\* notification for the parent if the parent is the current workspace or a view
\* of the views map; when the fetch fails it sends nothing.
C14_UpdateNotifiesUnlessHookFails ==
  [][ \A c \in Callers :
        /\ OnlySuppliedFieldsChange(c)
        /\ Returns(c, "update_view_with_params")
             => LET id == ret'[c].arg.view_id
                    got == get_view(mutex_folder', id)
                IN  IF IsHandlerError(ret'[c].result)
                    THEN /\ out' = << >>
                         /\ ret'[c].handlers = << "did_update_view" >>
                    ELSE /\ ret'[c].result = Ok(Unit)
                         /\ IF ~got.ok THEN out' = << >>
                            ELSE LET parent == got.value.parent_view_id
                                     updated == Notification(c, id, "DidUpdateView",
                                                             {got.value}, {})
                                 IN  IF Resolvable(mutex_folder'.folder, parent)
                                     THEN /\ Len(out') = 2
                                          /\ IsChildKind(out'[1].kind)
                                          /\ out'[1].topic = parent
                                          /\ out'[2] = updated
                                     ELSE out' = << updated >>
    ]_vars

\* B renamed only: the hook ran, both notifications were sent
C14_Witness ==
  /\ ret[1].op = "update_view_with_params"
  /\ ret[1].result = Ok(Unit)
  /\ ret[1].arg = [view_id |-> "B", name |-> "n3", desc |-> Unset, layout |-> Unset]
  /\ ret[1].handlers = << "did_update_view" >>
  /\ mutex_folder.is_some
  /\ mutex_folder.folder.views["B"] = [ViewB EXCEPT !.name = "n3"]
  /\ Len(out) = 2
  /\ HasChildKindFor(out, "A")
  /\ HasViewUpdatedFor(out, "B")

----------------------------------------------------------------------------
(* C15 *)

\* C15 as claimed: once a single successful create_view_with_params has
\* returned and the view listener has handled its Created event, the new view's
\* parent (the current workspace or a view of the map) has got exactly one
\* child-view notification.
C15_OneNotificationPerCreate ==
  /\ ncalls = 1
  /\ call[1] = Idle
  /\ ret[1].op = "create_view_with_params"
  /\ ret[1].result.ok
  /\ ret[1].inserted
  /\ view_rx = << >>
  /\ mutex_folder.is_some
  /\ Resolvable(mutex_folder.folder, ret[1].arg.parent_view_id)
  => notified[ret[1].arg.parent_view_id] = 1

----------------------------------------------------------------------------
(* C16 *)

ReloadReceives == reload_task.pc = "recv" /\ folder_state_rx' # folder_state_rx
                    /\ folder_state_rx # << >> /\ folder_state_rx' = Tail(folder_state_rx)

\* C16: for a root-changed signal received with a snapshot loaded the reload
\* listener takes the snapshot out of the slot, rebuilds it, sends exactly one
\* WorkspaceViewsUpdated computed from the rebuilt snapshot, then installs the
\* rebuilt snapshot; the slot is empty from the take to the install and loaded
\* again after it.  Any other signal changes nothing and sends nothing.
C16_ReloadTakesNotifiesInstalls ==
  /\ [](reload_task.pc = "recv" <=> mutex_folder.is_some)
  /\ [][ /\ ReloadReceives
              => IF Head(folder_state_rx).is_root_changed /\ mutex_folder.is_some
                 THEN /\ mutex_folder' = NoFolder
                      /\ reload_task' = [pc |-> "reload", folder |-> mutex_folder.folder]
                      /\ out' = << >>
                 ELSE /\ mutex_folder' = mutex_folder
                      /\ reload_task' = reload_task
                      /\ out' = << >>
         /\ reload_task' # reload_task /\ reload_task.pc = "reload"
              => /\ reload_task'.pc = "install"
                 /\ reload_task'.folder \in reload(reload_task.folder)
                 /\ mutex_folder' = NoFolder
                 /\ out' = << Notification("reload_listener", "W", "DidUpdateWorkspaceViews",
                                           get_workspace_view_pbs("W", reload_task'.folder),
                                           {}) >>
         /\ reload_task' # reload_task /\ reload_task.pc = "install"
              => /\ reload_task'.pc = "recv"
                 /\ mutex_folder' = Some(reload_task.folder)
                 /\ out' = << >>
         /\ reload_task' # reload_task /\ reload_task.pc = "recv"
              => ReloadReceives
         \* between the take and the install only the listener fills the slot
         /\ mutex_folder' # mutex_folder /\ ~mutex_folder.is_some
              => reload_task.pc = "install"
     ]_vars

\* A reload has installed a snapshot that holds the remote rename
C16_Witness ==
  /\ reload_task.pc = "recv"
  /\ nreloads = 1
  /\ folder_state_rx = << >>
  /\ mutex_folder.is_some
  /\ HasView(mutex_folder.folder, "A")
  /\ mutex_folder.folder.views["A"].name = "remote"
  /\ out = << >>

----------------------------------------------------------------------------
(* C17 *)

TrashListenerReceives == trash_task.pc = "recv" /\ trash_task'.pc = "notify"

\* C17 as claimed: for every trash event it receives, the trash listener sends
\* a TrashUpdated notification on the trash topic, also while the slot is empty
\* during a reload.
C17_TrashEventAlwaysAnnounced ==
  [][ TrashListenerReceives
        => \E i \in DOMAIN out' :
             out'[i].kind = "DidUpdateTrash" /\ out'[i].topic = "trash"
    ]_vars

----------------------------------------------------------------------------
(* C18 *)

TrashListenerNotifies == trash_task.pc = "notify" /\ trash_task'.pc = "recv"

ChildKindCount(ns, topic) ==
  Cardinality({i \in DOMAIN ns : IsChildKind(ns[i].kind) /\ ns[i].topic = topic})

\* C18 as claimed: for one trash event the trash listener sends exactly one
\* child-view notification to every distinct parent of the affected views that
\* is the current workspace or a view of the map; none of them is skipped
\* because another parent of the set cannot be resolved.
C18_EveryResolvableParentNotifiedOnce ==
  [][ TrashListenerNotifies /\ mutex_folder.is_some
        => \A parent \in trash_task.unique_ids :
             Resolvable(mutex_folder.folder, parent) => ChildKindCount(out', parent) = 1
    ]_vars

----------------------------------------------------------------------------
(* C19 *)

ViewListenerReceives == view_rx # << >> /\ view_rx' = Tail(view_rx)

\* C19 as claimed: the view listener sends the parent's child-view notification
\* on every Created and every Updated event, and nothing on a Deleted event.
C19_ViewListenerNotifiesParent ==
  [][ ViewListenerReceives
        => LET value == Head(view_rx)
           IN  IF value.type = "DidDeleteView" THEN out' = << >>
               ELSE HasChildKindFor(out', value.parent_view_id)
    ]_vars

\* C19 amended: on a Created or Updated event the view listener sends exactly
\* one child-view notification, on the changed view's parent id and computed
\* from the current snapshot, provided a snapshot is loaded and the parent is
\* the current workspace or a view of the views map; otherwise, and on every
\* Deleted event, it sends nothing.
C19_ViewListenerNotifiesResolvableParent ==
  [][ ViewListenerReceives
        => LET value == Head(view_rx)
               parent == value.parent_view_id
           IN  IF /\ value.type \in {"DidCreateView", "DidUpdate"}
                  /\ mutex_folder.is_some
                  /\ Resolvable(mutex_folder.folder, parent)
               THEN LET f == mutex_folder.folder
                    IN  /\ Len(out') = 1
                        /\ out'[1].topic = parent
                        /\ out'[1].trash = {}
                        /\ IF parent = f.current_workspace
                           THEN /\ out'[1].kind = "DidUpdateWorkspaceViews"
                                /\ out'[1].views = get_workspace_view_pbs(parent, f)
                           ELSE /\ out'[1].kind = "DidUpdateChildViews"
                                /\ out'[1].views =
                                     {view_pb_with_child_views(f.views[parent],
                                                               Children(f, parent) \ f.trash)}
               ELSE out' = << >>
    ]_vars

\* The Updated event of an update of B has been handled: B's parent A was notified
C19_Witness ==
  /\ call[1] # Idle
  /\ call[1].op = "update_view_with_params"
  /\ call[1].arg.view_id = "B"
  /\ view_rx = << >>
  /\ Len(out) = 1
  /\ out[1].by = "view_listener"
  /\ out[1].kind = "DidUpdateChildViews"
  /\ out[1].topic = "A"

----------------------------------------------------------------------------
(* C20 *)

\* The callers that are inside a multi-step mutation
WritersInside == {c \in Callers : call[c] # Idle /\ call[c].pc \in LockedPcs}

ReaderOps == {"get_view", "get_all_trash", "get_workspace_views"}

\* This step reads the tree: a reading call returns, or a listener computes
\* what it sends
ReaderStep ==
  \/ \E c \in Callers : Returning(c) /\ ret'[c].op \in ReaderOps
  \/ ViewListenerReceives
  \/ TrashListenerReceives
  \/ TrashListenerNotifies

\* C20: at most one caller is inside a mutation; no reading call and no
\* listener reads the tree while a caller is inside delete_trash or
\* delete_all_trash (trash record removed, view not yet deleted) or inside
\* move_view_to_trash (trash record added, current view not yet cleared); and no
\* other caller's write falls between the steps of a mutation, so that each
\* mutation takes effect as a whole.
C20_ReadersSeeCommittedStates ==
  /\ [](Cardinality(WritersInside) <= 1)
  /\ [][ /\ ReaderStep => WritersInside = {}
         /\ \A c \in WritersInside :
              call'[c] = call[c] => mutex_folder' = mutex_folder
         /\ \A c \in Callers :
              /\ Returns(c, "delete_trash") /\ call[c] # Idle
                   => /\ ret'[c].arg \notin mutex_folder'.folder.trash
                      /\ ~HasView(mutex_folder'.folder, ret'[c].arg)
              /\ Returns(c, "delete_all_trash") /\ call[c] # Idle
                   => /\ mutex_folder'.folder.trash = {}
                      /\ DOMAIN mutex_folder'.folder.views \cap call[c].tmp = {}
              /\ Returns(c, "move_view_to_trash") /\ call[c] # Idle
                   => /\ ret'[c].arg \in mutex_folder'.folder.trash
                      /\ mutex_folder'.folder.current_view # ret'[c].arg
     ]_vars

\* Caller 1 is inside delete_trash(B): the record is gone, the view is not yet;
\* caller 2's get_view(B) returned before it and can only return after it
C20_Witness ==
  /\ call[1] # Idle
  /\ call[1].pc = "delete_trash_views"
  /\ call[1].arg = "B"
  /\ "B" \notin mutex_folder.folder.trash
  /\ HasView(mutex_folder.folder, "B")
  /\ ret[2].op = "get_view"
  /\ ret[2].arg = "B"
  /\ IsNotFound(ret[2].result)

----------------------------------------------------------------------------
(* C21 *)

HoldsLock(c) == call[c] # Idle /\ call[c].pc \in LockedPcs
Suspended(c) == call[c] # Idle /\ call[c].pc \in AwaitPcs

\* This step is a step of caller c
Steps(c) == call'[c] # call[c]

\* This step takes caller c to an await point
Suspends(c) == Steps(c) /\ call'[c] # Idle /\ call'[c].pc \in AwaitPcs

\* C21 as claimed: no caller suspended at an await point holds the folder lock,
\* and every call that awaits a content handler has committed nothing to the
\* tree when it suspends: its commit comes in a lock section after the await.
C21_AwaitThenCommit ==
  /\ [](\A c \in Callers : ~(Suspended(c) /\ HoldsLock(c)))
  /\ [][ \A c \in Callers :
           /\ Suspends(c) => mutex_folder' = mutex_folder
           /\ Suspended(c) /\ Steps(c) => mutex_folder' = mutex_folder
    ]_vars

\* C21 amended: no caller suspended at an await point holds the folder lock,
\* and the handler's return changes nothing of the tree.  A creating call
\* commits its view in a lock section after its await.  update_view_with_params
\* commits in its first lock section, before the hook is awaited, and changes
\* nothing afterwards.  No lock section changes the tree while another caller
\* holds the lock.
C21_NoLockAcrossAwait ==
  /\ [](\A c \in Callers : ~(Suspended(c) /\ HoldsLock(c)))
  /\ [][ \A c \in Callers :
           /\ Suspended(c) /\ Steps(c) => mutex_folder' = mutex_folder
           /\ Steps(c) /\ mutex_folder' # mutex_folder
                => /\ call[c] # Idle
                   /\ \A d \in Callers \ {c} : ~HoldsLock(d)
                   /\ IF call[c].op \in CreatingOps
                      THEN /\ call[c].handlers # << >>
                           /\ ~Suspended(c)
                      ELSE /\ call[c].op = "update_view_with_params"
                           /\ call[c].pc = "update_locked"
                           /\ call[c].handlers = << >>
           /\ Suspends(c) /\ mutex_folder' # mutex_folder
                => call'[c].pc = "update_await"
    ]_vars

\* Caller 1 is suspended on the hook of its update of B; caller 2's get_view(B),
\* called after the update was committed, has already returned the new name
C21_Witness ==
  /\ call[1] # Idle
  /\ call[1].pc = "update_await"
  /\ call[1].arg.view_id = "B"
  /\ call[1].arg.name = "n3"
  /\ ret[2].op = "get_view"
  /\ ret[2].arg = "B"
  /\ ret[2].result.ok
  /\ ret[2].result.value.name = "n3"

----------------------------------------------------------------------------
(* C22 *)

TrashListenerTakes == trash_rx # << >> /\ trash_rx' = Tail(trash_rx)

\* C22 as claimed: once the cell has been dropped no listener sends anything,
\* and a listener that receives an event stops on it: after the event it has
\* terminated or has no further event left to process.
C22_UpgradeFailureStops ==
  [][ dropped =>
        /\ out' = << >>
        /\ ViewListenerReceives => "view" \in stopped' \/ view_rx' = << >>
        /\ TrashListenerTakes => "trash" \in stopped' \/ trash_rx' = << >>
        /\ ReloadReceives => "reload" \in stopped' \/ folder_state_rx' = << >>
    ]_vars

----------------------------------------------------------------------------
(* C23 *)

\* C23 as claimed: while the cell exists and a snapshot is loaded the view and
\* trash listeners keep running; none of them stops because it fell behind the
\* capacity of its channel.
C23_ListenersOutliveLag ==
  ~dropped /\ mutex_folder.is_some => stopped \cap {"view", "trash"} = {}

----------------------------------------------------------------------------
(* C24 *)

\* This step is initialize finding a collab store
InitializeLoads(c) == Returns(c, "initialize") /\ ret'[c].arg # Unset

\* This step is initialize finding no collab store
InitializeSkips(c) == Returns(c, "initialize") /\ ret'[c].arg = Unset

ReloadTakes ==
  /\ ReloadReceives
  /\ Head(folder_state_rx).is_root_changed
  /\ reload_task'.pc = "reload"

ReloadInstalls == reload_task.pc = "install" /\ reload_task'.pc = "recv"

\* C24: the slot goes from empty to loaded only by an initialize that finds a
\* store or by the reload listener's re-install, and from loaded to empty only
\* by the reload listener's take; the re-install puts back the snapshot the
\* listener rebuilt; every step of any other call leaves the slot empty if it
\* was empty and loaded if it was loaded; an initialize that finds a store
\* loads the slot and starts the listeners; an initialize that finds none
\* returns success and changes neither the slot nor the listeners.
C24_SlotFollowsSession ==
  /\ [](~listening => ~mutex_folder.is_some /\ reload_task.pc = "recv")
  /\ [][ /\ ~mutex_folder.is_some /\ mutex_folder'.is_some
              => (\E c \in Callers : InitializeLoads(c)) \/ ReloadInstalls
         /\ mutex_folder.is_some /\ ~mutex_folder'.is_some => ReloadTakes
         /\ ReloadTakes => /\ mutex_folder.is_some
                           /\ mutex_folder' = NoFolder
                           /\ reload_task'.folder = mutex_folder.folder
         /\ ReloadInstalls => mutex_folder' = Some(reload_task.folder)
         /\ \A c \in Callers :
              /\ Steps(c) /\ ~Returns(c, "initialize")
                   => mutex_folder'.is_some = mutex_folder.is_some
              /\ InitializeLoads(c)
                   => /\ mutex_folder'.is_some
                      /\ mutex_folder'.folder \in StoredFolders
                      /\ listening'
                      /\ stopped' = {}
                      /\ ret'[c].result = Ok(Unit)
              /\ InitializeSkips(c)
                   => /\ ret'[c].result = Ok(Unit)
                      /\ mutex_folder' = mutex_folder
                      /\ listening' = listening
                      /\ stopped' = stopped
                      /\ out' = << >>
    ]_vars

\* After initialize, a create ran while the snapshot was out for a reload and
\* left the slot empty; the listener then re-installed the snapshot
C24_Witness ==
  /\ ret[1].op = "create_view_with_params"
  /\ ret[1].n = 2
  /\ ret[1].result.ok
  /\ ~ret[1].inserted
  /\ nreloads = 1
  /\ reload_task.pc = "recv"
  /\ folder_state_rx = << >>
  /\ mutex_folder.is_some
  /\ ~HasView(mutex_folder.folder, ret[1].arg.view_id)

----------------------------------------------------------------------------
(* C25 *)

\* C25: while a caller holds the lock only that caller changes the snapshot
\* and no listener runs a lock section; and under fair scheduling every call in
\* flight returns, every turn of the trash listener (two lock sections) ends
\* and every reload (two lock sections) re-installs the snapshot.
C25_NoDeadlockOnTheLock ==
  /\ [][ \A c \in Callers :
            HoldsLock(c) /\ ~Steps(c)
              => UNCHANGED << mutex_folder, trash_task, reload_task >> ]_<< mutex_folder, call, trash_task, reload_task >>
  /\ \A c \in Callers : (call[c] # Idle) ~> (call[c] = Idle)
  /\ (trash_task.pc = "notify") ~> (trash_task.pc = "recv")
  /\ (reload_task.pc # "recv") ~> (reload_task.pc = "recv" /\ mutex_folder.is_some)

\* Caller 1 has trashed a view and the trash listener has finished its turn for
\* it, caller 2's close_view has come back from its handler, and a reload has
\* re-installed the snapshot
C25_Witness ==
  /\ ret[1].op = "move_view_to_trash"
  /\ ret[2].op = "close_view"
  /\ ret[2].handlers # << >>
  /\ call[1] = Idle
  /\ call[2] = Idle
  /\ trash_task.pc = "recv"
  /\ trash_rx = << >>
  /\ nreloads = 1
  /\ reload_task.pc = "recv"
  /\ mutex_folder.is_some
  /\ mutex_folder.folder.trash # {}

----------------------------------------------------------------------------
(* C26 *)

\* This step starts an update_view_with_params call of caller c
UpdateStarts(c) ==
  call[c] = Idle /\ call'[c] # Idle /\ call'[c].op = "update_view_with_params"

\* This step is a later step of an update_view_with_params call of caller c
UpdateContinues(c) ==
  call[c] # Idle /\ call[c].op = "update_view_with_params" /\ Steps(c)

\* C26: the first step of update_view_with_params commits the update and sends
\* nothing, and it goes on to the did_update_view hook exactly when the slot
\* was loaded, the view existed and a handler is registered for the layout the
\* view had before the update.  No later step changes the tree, and the hook
\* is recorded by the step that awaits it and by no other.  When the hook fails
\* the call returns its error, the view is in the tree with the supplied
\* fields, and no step of the call has sent a notification.
C26_UpdateCommitsBeforeHook ==
  [][ \A c \in Callers :
        /\ UpdateStarts(c)
             => LET params == call'[c].arg
                    id == params.view_id
                    existed == mutex_folder.is_some /\ HasView(mutex_folder.folder, id)
                IN  /\ out' = << >>
                    /\ call'[c].handlers = << >>
                    /\ call'[c].pc \in {"update_await", "update_fetch"}
                    /\ existed => /\ mutex_folder'.is_some
                                  /\ mutex_folder'.folder.views[id] =
                                       update_view(mutex_folder.folder.views[id], params)
                    /\ call'[c].pc = "update_await"
                         <=> (existed /\ get_handler(mutex_folder.folder.views[id].layout).ok)
        /\ UpdateContinues(c)
             => LET hooked == call[c].pc = "update_await"
                    handlers_after == IF call'[c] = Idle THEN ret'[c].handlers
                                      ELSE call'[c].handlers
                    params == call[c].arg
                    id == params.view_id
                IN  /\ mutex_folder' = mutex_folder
                    /\ handlers_after = IF hooked
                                        THEN Append(call[c].handlers, "did_update_view")
                                        ELSE call[c].handlers
                    /\ hooked => out' = << >>
                    /\ out' # << >> => Returning(c) /\ ret'[c].result = Ok(Unit)
                    /\ Returning(c) /\ ~ret'[c].result.ok
                         => /\ hooked
                            /\ ret'[c].result = Err("HandlerError", "did_update_view")
                            /\ mutex_folder'.is_some
                            /\ HasView(mutex_folder'.folder, id)
                            /\ LET view == mutex_folder'.folder.views[id]
                               IN  /\ params.name # Unset => view.name = params.name
                                   /\ params.desc # Unset => view.desc = params.desc
                                   /\ params.layout # Unset => view.layout = params.layout
    ]_vars

\* B renamed and turned into a Grid, the Document handler's hook failed: the
\* call returned the error, B keeps the new name and layout, nothing was sent
C26_Witness ==
  /\ ret[1].op = "update_view_with_params"
  /\ ret[1].result = Err("HandlerError", "did_update_view")
  /\ ret[1].arg = [view_id |-> "B", name |-> "n3", desc |-> Unset, layout |-> "Grid"]
  /\ ret[1].handlers = << "did_update_view" >>
  /\ call[1] = Idle
  /\ mutex_folder.is_some
  /\ HasView(mutex_folder.folder, "B")
  /\ mutex_folder.folder.views["B"].name = "n3"
  /\ mutex_folder.folder.views["B"].layout = "Grid"
  /\ out = << >>

====
